---- MODULE Spec2Model ----
(***************************************************************************)
(* Model of the iCalendar compliance-repair pipeline of ical-proxy:        *)
(* the date-range filter (filterEventsByDate), the fix engine              *)
(* (fixCalendar and the passes it calls), the property validators and the  *)
(* date-time normalizer / parser.                                          *)
(*                                                                         *)
(* Strings are TLA+ strings, read character by character with SubSeq, so   *)
(* that case folding, prefix tests, stripping and layout parsing are       *)
(* computed as the Go code computes them.  A component keeps its           *)
(* properties as the golang-ical library does: an ordered list of          *)
(* name/value entries in a Go slice, whose capacity is part of the state   *)
(* because the code keeps *IANAProperty pointers across appends.           *)
(***************************************************************************)
EXTENDS Integers, Sequences, FiniteSets, TLC

(***************************************************************************)
(* Strings                                                                 *)
(***************************************************************************)
Char(s, i) == SubSeq(s, i, i)

LowerLetters == "abcdefghijklmnopqrstuvwxyz"
UpperLetters == "ABCDEFGHIJKLMNOPQRSTUVWXYZ"
DigitChars == "0123456789"

\* the digits as characters, and the number each one writes
DigitValues == [c \in {Char(DigitChars, i) : i \in 1..10} |->
                   (CHOOSE i \in 1..10 : Char(DigitChars, i) = c) - 1]

IsDigit(c) == c \in DOMAIN DigitValues

DigitVal(c) == DigitValues[c]

\* the upper-case letter of every lower-case ASCII letter
UpperCase == [c \in {Char(LowerLetters, i) : i \in 1..26} |->
                 Char(UpperLetters, CHOOSE i \in 1..26 : Char(LowerLetters, i) = c)]

\* unicode.ToUpper on one ASCII character
UpperChar(c) == IF c \in DOMAIN UpperCase THEN UpperCase[c] ELSE c

RECURSIVE ToUpper(_)
ToUpper(s) ==
    IF s = "" THEN ""
    ELSE UpperChar(Char(s, 1)) \o ToUpper(SubSeq(s, 2, Len(s)))

\* strings.EqualFold, on ASCII strings
EqualFold(a, b) == ToUpper(a) = ToUpper(b)

HasPrefix(s, p) == Len(s) >= Len(p) /\ SubSeq(s, 1, Len(p)) = p

HasSuffix(s, p) == Len(s) >= Len(p) /\ SubSeq(s, Len(s) - Len(p) + 1, Len(s)) = p

\* strings.ReplaceAll(s, c, "") for a one-character c
RECURSIVE RemoveChar(_, _)
RemoveChar(s, c) ==
    IF s = "" THEN ""
    ELSE (IF Char(s, 1) = c THEN "" ELSE Char(s, 1)) \o RemoveChar(SubSeq(s, 2, Len(s)), c)

\* strings.Join(list, sep)
RECURSIVE Join(_, _)
Join(list, sep) ==
    IF list = <<>> THEN ""
    ELSE IF Len(list) = 1 THEN list[1]
    ELSE list[1] \o sep \o Join(Tail(list), sep)

\* fmt's %d for a natural number
RECURSIVE Itoa(_)
Itoa(n) ==
    IF n < 10 THEN Char(DigitChars, n + 1)
    ELSE Itoa(n \div 10) \o Char(DigitChars, (n % 10) + 1)

\* a number printed with at least w digits, zero padded (time.Format fields)
RECURSIVE ZeroPad(_, _)
ZeroPad(n, w) ==
    IF Len(Itoa(n)) >= w THEN Itoa(n)
    ELSE "0" \o ZeroPad(n, w - 1)

(***************************************************************************)
(* Property validators (validation.go)                                     *)
(***************************************************************************)
ClassValues == <<"PUBLIC", "PRIVATE", "CONFIDENTIAL">>
StatusValues == <<"TENTATIVE", "CONFIRMED", "CANCELLED">>
TranspValues == <<"OPAQUE", "TRANSPARENT">>
ActionValues == <<"AUDIO", "DISPLAY", "EMAIL">>

\* IsXName for the upper-case prefix only
IsXName_UpperOnly(value) == HasPrefix(value, "X-")

IsXName(value) == HasPrefix(ToUpper(value), "X-")

isValidClassValue(value) ==
    \/ \E i \in 1..Len(ClassValues) : EqualFold(value, ClassValues[i])
    \/ IsXName(value)

isValidStatusValue(value) ==
    \/ \E i \in 1..Len(StatusValues) : EqualFold(value, StatusValues[i])
    \/ IsXName(value)

isValidTranspValue(value) ==
    \/ \E i \in 1..Len(TranspValues) : EqualFold(value, TranspValues[i])
    \/ IsXName(value)

isValidActionValue(value) ==
    \/ \E i \in 1..Len(ActionValues) : EqualFold(value, ActionValues[i])
    \/ IsXName(value)

(***************************************************************************)
(* Instants and time layouts.  An instant is a calendar date y*10000 +     *)
(* m*100 + d and a time of day h*10000 + mi*100 + s, both in UTC; ok is    *)
(* FALSE for the error result of time.Parse.                               *)
(***************************************************************************)
Instant(date, tod) == [ok |-> TRUE, date |-> date, tod |-> tod]
ParseError == [ok |-> FALSE, date |-> 0, tod |-> 0]

IsLeap(y) == (y % 4 = 0) /\ ((y % 100 # 0) \/ (y % 400 = 0))

DaysIn(m, y) ==
    IF m = 2 THEN (IF IsLeap(y) THEN 29 ELSE 28)
    ELSE IF m \in {4, 6, 9, 11} THEN 30 ELSE 31

\* Time.After, Time.Before
After(a, b) == a.date > b.date \/ (a.date = b.date /\ a.tod > b.tod)
Before(a, b) == After(b, a)

\* the date one calendar day later: Time.AddDate(0, 0, 1) on the date part
NextDay(date) ==
    LET y == date \div 10000
        m == (date \div 100) % 100
        d == date % 100
    IN  IF d < DaysIn(m, y) THEN date + 1
        ELSE IF m < 12 THEN y * 10000 + (m + 1) * 100 + 1
        ELSE (y + 1) * 10000 + 101

AddDay(t) == Instant(NextDay(t.date), t.tod)

\* Time.Add(time.Hour)
AddHour(t) ==
    IF t.tod \div 10000 < 23 THEN Instant(t.date, t.tod + 10000)
    ELSE Instant(NextDay(t.date), t.tod - 230000)

\* Time.UTC().Format("20060102T150405Z"): the year takes at least four
\* digits, and five for the year 10000
FormatUTC(t) ==
    ZeroPad(t.date \div 10000, 4) \o ZeroPad(t.date % 10000, 4)
        \o "T" \o ZeroPad(t.tod, 6) \o "Z"

\* the characters of a string, in order
Chars(s) == [i \in 1..Len(s) |-> Char(s, i)]

FieldChars == {"Y", "M", "D", "h", "m", "s"}

\* A layout of time.Parse, written with Y M D h m s for the digit positions
\* of a field and every other character standing for itself: its
\* characters and the positions of each field.
Layout(pattern) ==
    [chars |-> Chars(pattern),
     at |-> [f \in FieldChars |->
                SelectSeq([i \in 1..Len(pattern) |-> i],
                          LAMBDA i : Char(pattern, i) = f)]]

\* the layouts of parseDateTime and parseEventDate
LayoutUTC == Layout("YYYYMMDDThhmmssZ")
LayoutLocal == Layout("YYYYMMDDThhmmss")
LayoutDate == Layout("YYYYMMDD")
LayoutDashUTC == Layout("YYYY-MM-DDThh:mm:ssZ")
LayoutDashLocal == Layout("YYYY-MM-DDThh:mm:ss")
LayoutDashDate == Layout("YYYY-MM-DD")

\* the number written by the digits of chars at the positions at
RECURSIVE FieldValue(_, _, _)
FieldValue(chars, at, acc) ==
    IF at = <<>> THEN acc
    ELSE FieldValue(chars, Tail(at), acc * 10 + DigitVal(chars[Head(at)]))

\* time.Parse(layout, value): every field has a fixed width and must be all
\* digits, every other character must match, and month, day, hour, minute
\* and second must be in range.  A field the layout lacks is zero.
TimeParse(layout, value) ==
    LET v == Chars(value)
    IN  IF /\ Len(value) = Len(layout.chars)
           /\ \A i \in 1..Len(layout.chars) :
                IF layout.chars[i] \in FieldChars
                THEN IsDigit(v[i])
                ELSE v[i] = layout.chars[i]
        THEN LET y == FieldValue(v, layout.at["Y"], 0)
                 m == FieldValue(v, layout.at["M"], 0)
                 d == FieldValue(v, layout.at["D"], 0)
                 h == FieldValue(v, layout.at["h"], 0)
                 mi == FieldValue(v, layout.at["m"], 0)
                 s == FieldValue(v, layout.at["s"], 0)
             IN  IF /\ m \in 1..12
                    /\ d >= 1
                    /\ d <= DaysIn(m, y)
                    /\ h < 24
                    /\ mi < 60
                    /\ s < 60
                 THEN Instant(y * 10000 + m * 100 + d, h * 10000 + mi * 100 + s)
                 ELSE ParseError
        ELSE ParseError

\* the first layout of the list that parses value, or the error
RECURSIVE TryLayouts(_, _)
TryLayouts(layouts, value) ==
    IF layouts = <<>> THEN ParseError
    ELSE LET t == TimeParse(Head(layouts), value)
         IN  IF t.ok THEN t ELSE TryLayouts(Tail(layouts), value)

parseDateTime(value) ==
    TryLayouts(<<LayoutUTC, LayoutLocal, LayoutDate>>, value)

parseEventDate(dateStr) ==
    TryLayouts(<<LayoutUTC, LayoutLocal, LayoutDate,
                 LayoutDashUTC, LayoutDashLocal, LayoutDashDate>>, dateStr)

\* normalizeDateTime with the colons left in
normalizeDateTime_KeepsColons(value) ==
    LET cleaned == RemoveChar(RemoveChar(value, " "), "-")
        withZ == IF Len(cleaned) = 15 /\ ~HasSuffix(cleaned, "Z")
                 THEN cleaned \o "Z" ELSE cleaned
    IN  IF Len(withZ) = 8 THEN withZ \o "T000000Z" ELSE withZ

\* normalizeDateTime with the hyphens left in
normalizeDateTime_KeepsHyphens(value) ==
    LET cleaned == RemoveChar(RemoveChar(value, " "), ":")
        withZ == IF Len(cleaned) = 15 /\ ~HasSuffix(cleaned, "Z")
                 THEN cleaned \o "Z" ELSE cleaned
    IN  IF Len(withZ) = 8 THEN withZ \o "T000000Z" ELSE withZ

\* normalizeDateTime padding a date with a local midnight
normalizeDateTime_PadsLocal(value) ==
    LET cleaned == RemoveChar(RemoveChar(RemoveChar(value, " "), "-"), ":")
        withZ == IF Len(cleaned) = 15 /\ ~HasSuffix(cleaned, "Z")
                 THEN cleaned \o "Z" ELSE cleaned
    IN  IF Len(withZ) = 8 THEN withZ \o "T000000" ELSE withZ

normalizeDateTime(value) ==
    LET cleaned == RemoveChar(RemoveChar(RemoveChar(value, " "), "-"), ":")
        withZ == IF Len(cleaned) = 15 /\ ~HasSuffix(cleaned, "Z")
                 THEN cleaned \o "Z" ELSE cleaned
    IN  IF Len(withZ) = 8 THEN withZ \o "T000000Z" ELSE withZ

(***************************************************************************)
(* Components as golang-ical holds them.  A component is                   *)
(*   kind   "VEVENT", "VTODO" or "VALARM"                                  *)
(*   pos    the identity of the object (its position in the parsed input)  *)
(*   props  the Properties slice, a list of name/value entries             *)
(*   cap    the capacity of that slice                                     *)
(*   alarms the nested VALARM components                                   *)
(* GetProperty returns a pointer to the first entry with the name, and     *)
(* SetProperty overwrites that entry or appends a new one.                 *)
(***************************************************************************)
\* a property: IANAToken, ICalParameters (in the order of their keys, which is
\* the order they are written in) and Value
PropWith(name, params, value) == [name |-> name, params |-> params, value |-> value]

Prop(name, value) == PropWith(name, <<>>, value)

\* position of the first entry called name, 0 when there is none
IndexOf(props, name) ==
    IF \E i \in 1..Len(props) : props[i].name = name
    THEN CHOOSE i \in 1..Len(props) :
            /\ props[i].name = name
            /\ \A j \in 1..(i - 1) : props[j].name # name
    ELSE 0

\* GetProperty(name) != nil
HasProperty(c, name) == IndexOf(c.props, name) # 0

\* GetProperty(name).Value
GetValue(c, name) == c.props[IndexOf(c.props, name)].value

\* a write of .Value through a pointer into the current Properties slice
SetValue(c, name, value) ==
    [c EXCEPT !.props[IndexOf(c.props, name)].value = value]

\* Go's append on a full slice allocates a new array of twice the capacity
GrowCap(cap) == IF cap = 0 THEN 1 ELSE 2 * cap

\* the capacity left by n appends to a nil slice, which is how the parser
\* and the test helpers build Properties
RECURSIVE CapAfterAppends(_)
CapAfterAppends(n) ==
    IF n = 0 THEN 0
    ELSE LET c == CapAfterAppends(n - 1)
         IN  IF n - 1 = c THEN GrowCap(c) ELSE c

\* TRUE when appending one entry to c.props moves the slice to a new array,
\* so that pointers taken before the append no longer refer to the component
AppendReallocates(c) == Len(c.props) = c.cap

\* SetProperty: the first entry called name gets the value and loses its
\* parameters; without such an entry one is appended
SetProperty(c, name, value) ==
    IF HasProperty(c, name)
    THEN [c EXCEPT !.props[IndexOf(c.props, name)] = Prop(name, value)]
    ELSE [c EXCEPT !.props = Append(c.props, Prop(name, value)),
                   !.cap = IF AppendReallocates(c) THEN GrowCap(c.cap) ELSE c.cap]

\* Component.Id(): the UID value, or "" without a UID
Id(c) == IF HasProperty(c, "UID") THEN GetValue(c, "UID") ELSE ""

(***************************************************************************)
(* Fix log                                                                 *)
(***************************************************************************)
\* AddFix that keeps the newest entry only
AddFix_Replaces(log, fix) == <<fix>>

\* FixLog.AddFix
AddFix(log, fix) == Append(log, fix)

\* the running state of a fix pass: the component and the log
FixState(c, log) == [c |-> c, log |-> log]

\* hex.EncodeToString of the 16 random bytes, then the fixed tag
generateUID(hex) == hex \o "@ical-proxy.local"

(***************************************************************************)
(* Fix engine (fixing.go)                                                  *)
(***************************************************************************)
\* fixRequiredEventProperties with the DTSTAMP rule testing UID, which the
\* rule before it has just ensured
fixRequiredEventProperties_StampTestsUid(st, hex, now) ==
    LET s1 == IF ~HasProperty(st.c, "UID")
              THEN FixState(SetProperty(st.c, "UID", generateUID(hex)),
                            AddFix(st.log, "Generated missing UID"))
              ELSE st
        s2 == IF ~HasProperty(s1.c, "UID")
              THEN FixState(SetProperty(s1.c, "DTSTAMP", FormatUTC(now)),
                            AddFix(s1.log, "Added missing DTSTAMP"))
              ELSE s1
    IN  IF ~HasProperty(s2.c, "SUMMARY")
        THEN FixState(SetProperty(s2.c, "SUMMARY", "Event"),
                      AddFix(s2.log, "Added default SUMMARY"))
        ELSE s2

fixRequiredEventProperties(st, hex, now) ==
    LET s1 == IF ~HasProperty(st.c, "UID")
              THEN FixState(SetProperty(st.c, "UID", generateUID(hex)),
                            AddFix(st.log, "Generated missing UID"))
              ELSE st
        s2 == IF ~HasProperty(s1.c, "DTSTAMP")
              THEN FixState(SetProperty(s1.c, "DTSTAMP", FormatUTC(now)),
                            AddFix(s1.log, "Added missing DTSTAMP"))
              ELSE s1
    IN  IF ~HasProperty(s2.c, "SUMMARY")
        THEN FixState(SetProperty(s2.c, "SUMMARY", "Event"),
                      AddFix(s2.log, "Added default SUMMARY"))
        ELSE s2

\* fixEventDateTimes works through two pointers taken at entry, dtstart and
\* dtend.  dtstart is taken again after DTSTART is added, dtend after DTEND
\* is added.  A dtend taken at entry is stale once the append of DTSTART
\* has reallocated Properties: the old array still holds the entry, so
\* reads and writes through dtend go to the old entry and the writes never
\* reach the event.  The running state holds the event, the log, whether
\* dtend is stale, and the value of the entry dtend points to.
DateFixState(c, log, staleEnd, endValue) ==
    [c |-> c, log |-> log, staleEnd |-> staleEnd, endValue |-> endValue]

\* the value seen through a dtend taken now
EndValue(c) == IF HasProperty(c, "DTEND") THEN GetValue(c, "DTEND") ELSE ""

\* fixEventDateTimes, "Ensure DTSTART exists"
addMissingDtstart(st, now) ==
    IF HasProperty(st.c, "DTSTART")
    THEN DateFixState(st.c, st.log, FALSE, EndValue(st.c))
    ELSE DateFixState(SetProperty(st.c, "DTSTART", FormatUTC(now)),
                      AddFix(st.log, "Added missing DTSTART"),
                      HasProperty(st.c, "DTEND") /\ AppendReallocates(st.c),
                      EndValue(st.c))

\* fixEventDateTimes, "Fix DTSTART format"
normalizeDtstart(d) ==
    [d EXCEPT !.c = SetValue(d.c, "DTSTART", normalizeDateTime(GetValue(d.c, "DTSTART"))),
              !.log = IF GetValue(d.c, "DTSTART") # normalizeDateTime(GetValue(d.c, "DTSTART"))
                      THEN AddFix(d.log, "Normalized DTSTART format")
                      ELSE d.log]

\* DefaultEnd that takes the clock whatever DTSTART is
DefaultEnd_FromClock(startTime, now) == FormatUTC(AddHour(now))

\* the DTEND of an event that has none: an hour after DTSTART, or an hour
\* after now when DTSTART does not parse
DefaultEnd(startTime, now) ==
    IF startTime.ok THEN FormatUTC(AddHour(startTime)) ELSE FormatUTC(AddHour(now))

\* fixEventDateTimes, "Ensure DTEND exists": dtend is taken again
addMissingDtend(d, now) ==
    IF HasProperty(d.c, "DTEND") THEN d
    ELSE DateFixState(SetProperty(d.c, "DTEND",
                                  DefaultEnd(parseDateTime(GetValue(d.c, "DTSTART")), now)),
                      AddFix(d.log, "Added missing DTEND"),
                      FALSE,
                      DefaultEnd(parseDateTime(GetValue(d.c, "DTSTART")), now))

\* a write of value through dtend
WriteEnd(d, value) ==
    [d EXCEPT !.c = IF d.staleEnd THEN d.c ELSE SetValue(d.c, "DTEND", value),
              !.endValue = value]

\* fixEventDateTimes, "Fix DTEND format"
normalizeDtend(d) ==
    [WriteEnd(d, normalizeDateTime(d.endValue)) EXCEPT
        !.log = IF d.endValue # normalizeDateTime(d.endValue)
                THEN AddFix(d.log, "Normalized DTEND format")
                ELSE d.log]

\* the test of "Ensure DTEND is after DTSTART"
EndNotAfter(startTime, endTime) ==
    startTime.ok /\ endTime.ok /\ ~After(endTime, startTime)

\* fixEventDateTimes, "Ensure DTEND is after DTSTART"
orderDtend(d) ==
    IF EndNotAfter(parseDateTime(GetValue(d.c, "DTSTART")), parseDateTime(d.endValue))
    THEN [WriteEnd(d, FormatUTC(AddHour(parseDateTime(GetValue(d.c, "DTSTART"))))) EXCEPT
             !.log = AddFix(d.log, "Fixed DTEND to be after DTSTART")]
    ELSE d

\* the event and the log, without the pointers
Returned(d) == FixState(d.c, d.log)

\* fixEventDateTimes adding DTEND before DTSTART is normalized
fixEventDateTimes_EndFromRawStart(st, now) ==
    Returned(orderDtend(normalizeDtend(
        normalizeDtstart(addMissingDtend(addMissingDtstart(st, now), now)))))

fixEventDateTimes(st, now) ==
    Returned(orderDtend(normalizeDtend(
        addMissingDtend(normalizeDtstart(addMissingDtstart(st, now)), now))))

\* fixEventOptionalProperties, CLASS: an empty CLASS is left as it is
fixClass(st) ==
    IF ~HasProperty(st.c, "CLASS")
    THEN FixState(SetProperty(st.c, "CLASS", "PUBLIC"),
                  AddFix(st.log, "Added missing CLASS (PUBLIC)"))
    ELSE IF GetValue(st.c, "CLASS") # "" /\ ~isValidClassValue(GetValue(st.c, "CLASS"))
    THEN FixState(SetValue(st.c, "CLASS", "PUBLIC"),
                  AddFix(st.log, "Invalid CLASS value '" \o GetValue(st.c, "CLASS")
                                     \o "', changed to PUBLIC"))
    ELSE st

\* fixStatus writing every value it accepts back in upper case
fixStatus_UpperCased(st) ==
    IF ~HasProperty(st.c, "STATUS")
    THEN FixState(SetProperty(st.c, "STATUS", "CONFIRMED"),
                  AddFix(st.log, "Added missing STATUS (CONFIRMED)"))
    ELSE IF GetValue(st.c, "STATUS") = ""
    THEN FixState(SetValue(st.c, "STATUS", "CONFIRMED"),
                  AddFix(st.log, "Set empty STATUS to CONFIRMED"))
    ELSE IF ~isValidStatusValue(GetValue(st.c, "STATUS"))
    THEN FixState(SetValue(st.c, "STATUS", "CONFIRMED"),
                  AddFix(st.log, "Invalid STATUS value '" \o GetValue(st.c, "STATUS")
                                     \o "', changed to CONFIRMED"))
    ELSE FixState(SetValue(st.c, "STATUS", ToUpper(GetValue(st.c, "STATUS"))), st.log)

\* fixEventOptionalProperties, STATUS
fixStatus(st) ==
    IF ~HasProperty(st.c, "STATUS")
    THEN FixState(SetProperty(st.c, "STATUS", "CONFIRMED"),
                  AddFix(st.log, "Added missing STATUS (CONFIRMED)"))
    ELSE IF GetValue(st.c, "STATUS") = ""
    THEN FixState(SetValue(st.c, "STATUS", "CONFIRMED"),
                  AddFix(st.log, "Set empty STATUS to CONFIRMED"))
    ELSE IF ~isValidStatusValue(GetValue(st.c, "STATUS"))
    THEN FixState(SetValue(st.c, "STATUS", "CONFIRMED"),
                  AddFix(st.log, "Invalid STATUS value '" \o GetValue(st.c, "STATUS")
                                     \o "', changed to CONFIRMED"))
    ELSE st

\* fixTransp with the test of fixClass, which lets an empty value through
fixTransp_EmptyKept(st) ==
    IF ~HasProperty(st.c, "TRANSP")
    THEN FixState(SetProperty(st.c, "TRANSP", "OPAQUE"),
                  AddFix(st.log, "Added missing TRANSP (OPAQUE)"))
    ELSE IF GetValue(st.c, "TRANSP") # "" /\ ~isValidTranspValue(GetValue(st.c, "TRANSP"))
    THEN FixState(SetValue(st.c, "TRANSP", "OPAQUE"),
                  AddFix(st.log, "Invalid TRANSP value '" \o GetValue(st.c, "TRANSP")
                                     \o "', changed to OPAQUE"))
    ELSE st

\* fixEventOptionalProperties, TRANSP
fixTransp(st) ==
    IF ~HasProperty(st.c, "TRANSP")
    THEN FixState(SetProperty(st.c, "TRANSP", "OPAQUE"),
                  AddFix(st.log, "Added missing TRANSP (OPAQUE)"))
    ELSE IF GetValue(st.c, "TRANSP") = ""
    THEN FixState(SetValue(st.c, "TRANSP", "OPAQUE"),
                  AddFix(st.log, "Set empty TRANSP to OPAQUE"))
    ELSE IF ~isValidTranspValue(GetValue(st.c, "TRANSP"))
    THEN FixState(SetValue(st.c, "TRANSP", "OPAQUE"),
                  AddFix(st.log, "Invalid TRANSP value '" \o GetValue(st.c, "TRANSP")
                                     \o "', changed to OPAQUE"))
    ELSE st

fixEventOptionalProperties(st, nowCreated, nowModified) ==
    LET s1 == IF ~HasProperty(st.c, "CREATED")
              THEN FixState(SetProperty(st.c, "CREATED", FormatUTC(nowCreated)),
                            AddFix(st.log, "Added missing CREATED timestamp"))
              ELSE st
        s2 == IF ~HasProperty(s1.c, "LAST-MODIFIED")
              THEN FixState(SetProperty(s1.c, "LAST-MODIFIED", FormatUTC(nowModified)),
                            AddFix(s1.log, "Added missing LAST-MODIFIED timestamp"))
              ELSE s1
    IN  fixTransp(fixStatus(fixClass(s2)))

\* fixEventAlarms, ACTION of one alarm: st holds the alarm and the event's
\* log, n is the 1-based count of the alarm as text
fixAlarmAction(st, n) ==
    IF ~HasProperty(st.c, "ACTION")
    THEN FixState(SetProperty(st.c, "ACTION", "DISPLAY"),
                  AddFix(st.log, "Added missing ACTION to alarm " \o n))
    ELSE IF GetValue(st.c, "ACTION") = ""
    THEN FixState(SetValue(st.c, "ACTION", "DISPLAY"),
                  AddFix(st.log, "Set empty ACTION to DISPLAY in alarm " \o n))
    ELSE IF ~isValidActionValue(GetValue(st.c, "ACTION"))
    THEN FixState(SetValue(st.c, "ACTION", "DISPLAY"),
                  AddFix(st.log, "Invalid ACTION value '" \o GetValue(st.c, "ACTION")
                                     \o "' in alarm " \o n \o ", changed to DISPLAY"))
    ELSE st

\* fixEventAlarms, TRIGGER of one alarm
fixAlarmTrigger(st, n) ==
    IF ~HasProperty(st.c, "TRIGGER")
    THEN FixState(SetProperty(st.c, "TRIGGER", "-PT15M"),
                  AddFix(st.log, "Added missing TRIGGER to alarm " \o n))
    ELSE st

\* the upper-cased ACTION the last two rules of fixEventAlarms look at
ActionValue(alarm) ==
    IF HasProperty(alarm, "ACTION") THEN ToUpper(GetValue(alarm, "ACTION")) ELSE ""

\* the text an alarm takes from its event: the SUMMARY value, or the
\* literal when the event has no SUMMARY
Inherited(event) ==
    IF HasProperty(event, "SUMMARY") THEN GetValue(event, "SUMMARY") ELSE "Event Reminder"

\* fixAlarmDescription for DISPLAY alarms only
fixAlarmDescription_DisplayOnly(st, event, n) ==
    IF ActionValue(st.c) = "DISPLAY" /\ ~HasProperty(st.c, "DESCRIPTION")
    THEN FixState(SetProperty(st.c, "DESCRIPTION", Inherited(event)),
                  AddFix(st.log, "Added missing DESCRIPTION to " \o ActionValue(st.c)
                                     \o " alarm " \o n))
    ELSE st

\* fixEventAlarms, DESCRIPTION of a DISPLAY or EMAIL alarm
fixAlarmDescription(st, event, n) ==
    IF ActionValue(st.c) \in {"DISPLAY", "EMAIL"} /\ ~HasProperty(st.c, "DESCRIPTION")
    THEN FixState(SetProperty(st.c, "DESCRIPTION", Inherited(event)),
                  AddFix(st.log, "Added missing DESCRIPTION to " \o ActionValue(st.c)
                                     \o " alarm " \o n))
    ELSE st

\* fixEventAlarms, SUMMARY of an EMAIL alarm
fixAlarmSummary(st, event, n) ==
    IF ActionValue(st.c) = "EMAIL" /\ ~HasProperty(st.c, "SUMMARY")
    THEN FixState(SetProperty(st.c, "SUMMARY", Inherited(event)),
                  AddFix(st.log, "Added missing SUMMARY to EMAIL alarm " \o n))
    ELSE st

\* the body of the loop of fixEventAlarms for the alarm in st, the
\* alarmCount-th alarm of event
fixAlarm(st, event, alarmCount) ==
    fixAlarmSummary(
        fixAlarmDescription(
            fixAlarmTrigger(fixAlarmAction(st, Itoa(alarmCount)), Itoa(alarmCount)),
            event, Itoa(alarmCount)),
        event, Itoa(alarmCount))

\* the loop of fixEventAlarms over alarms k..Len(alarms) of the event st.c
RECURSIVE fixAlarmsFrom(_, _)
fixAlarmsFrom(st, k) ==
    IF k > Len(st.c.alarms) THEN st
    ELSE LET a == fixAlarm(FixState(st.c.alarms[k], st.log), st.c, k)
         IN  fixAlarmsFrom(FixState([st.c EXCEPT !.alarms[k] = a.c], a.log), k + 1)

fixEventAlarms(st) == fixAlarmsFrom(st, 1)

\* the values one fixEvent call takes from outside: the random bytes of
\* generateUID and the readings of time.Now()
Reads(hex, stamp, dt, created, modified) ==
    [hex |-> hex, stamp |-> stamp, dt |-> dt, created |-> created, modified |-> modified]

\* fixEvent with the alarms fixed first
fixEvent_AlarmsFirst(event, r) ==
    fixEventOptionalProperties(
        fixEventDateTimes(
            fixRequiredEventProperties(fixEventAlarms(FixState(event, <<>>)),
                                       r.hex, r.stamp),
            r.dt),
        r.created, r.modified)

\* fixEvent: the event after the four passes and the log it returns
fixEvent(event, r) ==
    fixEventAlarms(
        fixEventOptionalProperties(
            fixEventDateTimes(
                fixRequiredEventProperties(FixState(event, <<>>), r.hex, r.stamp),
                r.dt),
            r.created, r.modified))

\* fixTodo that goes on to the alarms as fixEvent does
fixTodo_FixesAlarms(todo, hex, now) ==
    LET st == FixState(todo, <<>>)
        s1 == IF ~HasProperty(st.c, "UID")
              THEN FixState(SetProperty(st.c, "UID", generateUID(hex)),
                            AddFix(st.log, "Generated missing UID for TODO"))
              ELSE st
        s2 == IF ~HasProperty(s1.c, "DTSTAMP")
              THEN FixState(SetProperty(s1.c, "DTSTAMP", FormatUTC(now)),
                            AddFix(s1.log, "Added missing DTSTAMP to TODO"))
              ELSE s1
    IN  fixEventAlarms(IF ~HasProperty(s2.c, "SUMMARY")
                       THEN FixState(SetProperty(s2.c, "SUMMARY", "Task"),
                                     AddFix(s2.log, "Added default SUMMARY to TODO"))
                       ELSE s2)

fixTodo(todo, hex, now) ==
    LET st == FixState(todo, <<>>)
        s1 == IF ~HasProperty(st.c, "UID")
              THEN FixState(SetProperty(st.c, "UID", generateUID(hex)),
                            AddFix(st.log, "Generated missing UID for TODO"))
              ELSE st
        s2 == IF ~HasProperty(s1.c, "DTSTAMP")
              THEN FixState(SetProperty(s1.c, "DTSTAMP", FormatUTC(now)),
                            AddFix(s1.log, "Added missing DTSTAMP to TODO"))
              ELSE s1
    IN  IF ~HasProperty(s2.c, "SUMMARY")
        THEN FixState(SetProperty(s2.c, "SUMMARY", "Task"),
                      AddFix(s2.log, "Added default SUMMARY to TODO"))
        ELSE s2

\* the closure getCalendarProperty: the value of the first calendar
\* property with the token, "" when there is none
getCalendarProperty(props, propertyName) ==
    IF IndexOf(props, propertyName) # 0
    THEN props[IndexOf(props, propertyName)].value
    ELSE ""

\* Calendar.SetVersion / SetProductId / SetCalscale: overwrite the first
\* calendar property with the token or append one
setCalendarProperty(props, name, value) ==
    IF IndexOf(props, name) # 0
    THEN [props EXCEPT ![IndexOf(props, name)].value = value]
    ELSE Append(props, Prop(name, value))

\* fixCalendarProperties, VERSION: st holds the calendar properties and
\* the log
fixVersion(st) ==
    IF getCalendarProperty(st.c, "VERSION") # "2.0"
    THEN FixState(setCalendarProperty(st.c, "VERSION", "2.0"),
                  AddFix(st.log, "Set VERSION to 2.0"))
    ELSE st

\* fixProdid replacing every PRODID that is not the proxy's own
fixProdid_Overwrite(st) ==
    IF getCalendarProperty(st.c, "PRODID") # "-//iCal Proxy Server//EN"
    THEN FixState(setCalendarProperty(st.c, "PRODID", "-//iCal Proxy Server//EN"),
                  AddFix(st.log, "Added missing PRODID"))
    ELSE st

\* fixCalendarProperties, PRODID
fixProdid(st) ==
    IF getCalendarProperty(st.c, "PRODID") = ""
    THEN FixState(setCalendarProperty(st.c, "PRODID", "-//iCal Proxy Server//EN"),
                  AddFix(st.log, "Added missing PRODID"))
    ELSE st

\* fixCalscale without the branch for a CALSCALE other than GREGORIAN
fixCalscale_MissingOnly(st) ==
    IF getCalendarProperty(st.c, "CALSCALE") = ""
    THEN FixState(setCalendarProperty(st.c, "CALSCALE", "GREGORIAN"),
                  AddFix(st.log, "Added missing CALSCALE (GREGORIAN)"))
    ELSE st

\* fixCalendarProperties, CALSCALE
fixCalscale(st) ==
    LET calscale == getCalendarProperty(st.c, "CALSCALE")
    IN  IF calscale = ""
        THEN FixState(setCalendarProperty(st.c, "CALSCALE", "GREGORIAN"),
                      AddFix(st.log, "Added missing CALSCALE (GREGORIAN)"))
        ELSE IF calscale # "GREGORIAN"
        THEN FixState(setCalendarProperty(st.c, "CALSCALE", "GREGORIAN"),
                      AddFix(st.log, "Changed unsupported CALSCALE '" \o calscale
                                         \o "' to GREGORIAN"))
        ELSE st

fixCalendarProperties(st) == fixCalscale(fixProdid(fixVersion(st)))

(***************************************************************************)
(* Date range filter                                                       *)
(***************************************************************************)
\* a nil *time.Time
NoDate == ParseError

\* shouldRemove with the comparison against toDate turned round
shouldRemove_BeforeTo(event, fromDate, toDate) ==
    /\ HasProperty(event, "DTSTART")
    /\ LET eventStart == parseEventDate(GetValue(event, "DTSTART"))
       IN  /\ eventStart.ok
           /\ \/ fromDate.ok /\ Before(eventStart, fromDate)
              \/ toDate.ok /\ Before(eventStart, AddDay(toDate))

\* the body of the loop of filterEventsByDate: shouldRemove for one event
shouldRemove(event, fromDate, toDate) ==
    /\ HasProperty(event, "DTSTART")
    /\ LET eventStart == parseEventDate(GetValue(event, "DTSTART"))
       IN  /\ eventStart.ok
           /\ \/ fromDate.ok /\ Before(eventStart, fromDate)
              \/ toDate.ok /\ After(eventStart, AddDay(toDate))

\* Calendar.Events(): the VEVENT components in order
Events(components) == SelectSeq(components, LAMBDA c : c.kind = "VEVENT")

\* Calendar.Todos()
Todos(components) == SelectSeq(components, LAMBDA c : c.kind = "VTODO")

\* Calendar.RemoveEvent(id): drops the first VEVENT whose Id() is id
RemoveEvent(components, id) ==
    IF \E i \in 1..Len(components) : components[i].kind = "VEVENT" /\ Id(components[i]) = id
    THEN LET k == CHOOSE i \in 1..Len(components) :
                    /\ components[i].kind = "VEVENT" /\ Id(components[i]) = id
                    /\ \A j \in 1..(i - 1) :
                         ~(components[j].kind = "VEVENT" /\ Id(components[j]) = id)
         IN  SubSeq(components, 1, k - 1) \o SubSeq(components, k + 1, Len(components))
    ELSE components

\* the second loop of filterEventsByDate
RECURSIVE RemoveAll(_, _)
RemoveAll(components, eventsToRemove) ==
    IF eventsToRemove = <<>> THEN components
    ELSE RemoveAll(RemoveEvent(components, Id(Head(eventsToRemove))), Tail(eventsToRemove))

filterEventsByDate(components, fromDate, toDate) ==
    LET eventsToRemove == SelectSeq(Events(components),
                                    LAMBDA e : shouldRemove(e, fromDate, toDate))
    IN  RemoveAll(components, eventsToRemove)

(***************************************************************************)
(* Calendar.Serialize with CRLF as the new line.  A content line is the    *)
(* name, the parameters and the value of a property; a content line of     *)
(* more than 75 characters is folded: its first 75 characters, then lines  *)
(* that start with a space and hold up to 74 characters each.              *)
(***************************************************************************)
NewLine == "\r\n"

\* a parameter value, in quotes when it holds a delimiter
ParamValue(v) ==
    IF \E i \in 1..Len(v) : Char(v, i) \in {";", ":", ",", "\"", "\\"}
    THEN "\"" \o v \o "\"" ELSE v

RECURSIVE ParamsText(_)
ParamsText(params) ==
    IF params = <<>> THEN ""
    ELSE ";" \o Head(params)[1] \o "=" \o ParamValue(Head(params)[2])
            \o ParamsText(Tail(params))

ContentLine(p) == p.name \o ParamsText(p.params) \o ":" \o p.value

\* the lines after the first of a folded content line
RECURSIVE FoldRest(_)
FoldRest(r) ==
    IF Len(r) > 74
    THEN " " \o SubSeq(r, 1, 74) \o NewLine \o FoldRest(SubSeq(r, 75, Len(r)))
    ELSE " " \o r \o NewLine

Fold(r) ==
    IF Len(r) > 75
    THEN SubSeq(r, 1, 75) \o NewLine \o FoldRest(SubSeq(r, 76, Len(r)))
    ELSE r \o NewLine

RECURSIVE PropertiesText(_)
PropertiesText(props) ==
    IF props = <<>> THEN ""
    ELSE Fold(ContentLine(Head(props))) \o PropertiesText(Tail(props))

\* components with their properties and, inside them, their alarms
RECURSIVE ComponentsText(_)
ComponentsText(components) ==
    IF components = <<>> THEN ""
    ELSE "BEGIN:" \o Head(components).kind \o NewLine
            \o PropertiesText(Head(components).props)
            \o ComponentsText(Head(components).alarms)
            \o "END:" \o Head(components).kind \o NewLine
            \o ComponentsText(Tail(components))

Serialize(calProps, components) ==
    "BEGIN:VCALENDAR" \o NewLine
        \o PropertiesText(calProps)
        \o ComponentsText(components)
        \o "END:VCALENDAR" \o NewLine

(***************************************************************************)
(* The fixes on the serialized text                                        *)
(***************************************************************************)
\* the positions at which sep starts in s
OccurrencesOf(s, sep) ==
    {i \in 1..(Len(s) - Len(sep) + 1) : SubSeq(s, i, i + Len(sep) - 1) = sep}

\* the k-th smallest member of a set of numbers
Nth(S, k) == CHOOSE i \in S : Cardinality({j \in S : j < i}) = k - 1

\* strings.Split(s, sep), for a separator that cannot overlap itself
Split(s, sep) ==
    LET at == OccurrencesOf(s, sep)
        n == Cardinality(at)
    IN  [k \in 1..(n + 1) |->
            SubSeq(s, IF k = 1 THEN 1 ELSE Nth(at, k - 1) + Len(sep),
                      IF k = n + 1 THEN Len(s) ELSE Nth(at, k) - 1)]

\* strings.Contains(s, sub)
Contains(s, sub) == OccurrencesOf(s, sub) # {}

\* strings.Index(s, sub), counted from 1, with 0 for "not found"
Index(s, sub) ==
    IF Contains(s, sub) THEN Nth(OccurrencesOf(s, sub), 1) ELSE 0

\* one turn of the loop of fixTzidOnUtcTimes
fixTzidLine(line) ==
    IF (HasPrefix(line, "DTSTART;") \/ HasPrefix(line, "DTEND;"))
          /\ Contains(line, "TZID=")
          /\ Index(line, ":") # 0
          /\ HasSuffix(SubSeq(line, Index(line, ":") + 1, Len(line)), "Z")
    THEN (IF HasPrefix(line, "DTEND;") THEN "DTEND" ELSE "DTSTART")
            \o ":" \o SubSeq(line, Index(line, ":") + 1, Len(line))
    ELSE line

MapLines(lines) == [i \in 1..Len(lines) |-> fixTzidLine(lines[i])]

fixTzidOnUtcTimes(icalData) == Join(MapLines(Split(icalData, "\r\n")), "\r\n")

\* applyPostSerializationFixes: the text, and the log with the fix it adds
applyPostSerializationFixes(icalData, log) ==
    [text |-> fixTzidOnUtcTimes(icalData),
     log |-> IF fixTzidOnUtcTimes(icalData) # icalData
             THEN AddFix(log, "Removed TZID parameters from UTC times")
             ELSE log]

(***************************************************************************)
(* Inputs: the calendars the parser can hand to the pipeline               *)
(***************************************************************************)
MaxOther == 1       \* properties of an event outside the ones modelled
MaxAlarms == 1      \* alarms of the event in the alarm inputs
MaxFiltered == 2    \* events of the calendar in the filter inputs
MaxFixCalls == 2    \* fixEvent calls on one event

None == [has |-> FALSE, val |-> ""]
Some(v) == [has |-> TRUE, val |-> v]
Opt(S) == {None} \cup {Some(v) : v \in S}

\* the property list with the entries of names whose option is present
RECURSIVE BuildProps(_, _)
BuildProps(names, opts) ==
    IF names = <<>> THEN <<>>
    ELSE (IF Head(opts).has THEN <<Prop(Head(names), Head(opts).val)>> ELSE <<>>)
            \o BuildProps(Tail(names), Tail(opts))

Others(n) == [i \in 1..n |-> Prop("LOCATION", "Room")]

\* a component as the parser builds it, by appending its properties
Parsed(kind, props, alarms) ==
    [kind |-> kind, pos |-> 0, props |-> props,
     cap |-> CapAfterAppends(Len(props)), alarms |-> alarms]

EventNames == <<"UID", "DTSTAMP", "SUMMARY", "DTSTART", "DTEND",
                "CREATED", "LAST-MODIFIED", "CLASS", "STATUS", "TRANSP">>
AlarmNames == <<"ACTION", "TRIGGER", "DESCRIPTION", "SUMMARY">>
TodoNames == <<"UID", "DTSTAMP", "SUMMARY">>

\* the well-formed event of TestFixEventPropertiesConditional
GoodEventOpts ==
    <<Some("test-uid@example.com"), Some("20250728T120000Z"), Some("Test Event"),
      Some("20250728T140000Z"), Some("20250728T150000Z"),
      Some("20250728T120000Z"), Some("20250728T120000Z"),
      Some("PUBLIC"), Some("CONFIRMED"), Some("OPAQUE")>>

\* GoodEventOpts with the options of some properties replaced
With(opts, changes) ==
    [i \in 1..Len(opts) |->
        IF \E j \in 1..Len(changes) : changes[j][1] = EventNames[i]
        THEN (changes[CHOOSE j \in 1..Len(changes) : changes[j][1] = EventNames[i]])[2]
        ELSE opts[i]]

Event(changes, others, alarms) ==
    Parsed("VEVENT", BuildProps(EventNames, With(GoodEventOpts, changes)) \o Others(others),
           alarms)

Alarm(action, trigger, description, summary) ==
    Parsed("VALARM", BuildProps(AlarmNames, <<action, trigger, description, summary>>), <<>>)

Todo(uid, stamp, summary) ==
    Parsed("VTODO", BuildProps(TodoNames, <<uid, stamp, summary>>), <<>>)

\* a to-do with more than the three properties fixTodo looks at
TodoWith(uid, stamp, summary, more, alarms) ==
    Parsed("VTODO", BuildProps(TodoNames, <<uid, stamp, summary>>) \o more, alarms)

GoodEvent == Event(<<>>, 0, <<>>)
GoodTodo == Todo(Some("todo-1@example.com"), Some("20250728T120000Z"), Some("Buy milk"))
GoodCalProps == <<Prop("VERSION", "2.0"), Prop("PRODID", "-//Test//Test Calendar//EN"),
                  Prop("CALSCALE", "GREGORIAN")>>

\* the components of a parsed calendar, numbered in order
Numbered(components) ==
    [i \in 1..Len(components) |-> [components[i] EXCEPT !.pos = i]]

\* a text as the parser reads it, with the bounds of the request: parses
\* is FALSE for a text that ics.ParseCalendar rejects
Calendar(calProps, components, from, to) ==
    [calProps |-> calProps, components |-> Numbered(components), from |-> from, to |-> to,
     parses |-> TRUE]

\* all sequences over S of length 1..n
RECURSIVE SeqsUpTo(_, _)
SeqsUpTo(S, n) ==
    IF n = 0 THEN {}
    ELSE {<<e>> : e \in S} \cup {Append(s, e) : s \in SeqsUpTo(S, n - 1), e \in S}

VersionIn == Opt({"", "2.0", "1.0"})
ProdidIn == Opt({"", "-//Wrong App//EN", "-//iCal Proxy Server//EN"})
CalscaleIn == Opt({"", "GREGORIAN", "gregorian", "JULIAN"})

\* calendars that differ in their calendar-level properties
CalendarInputs ==
    {Calendar(BuildProps(<<"VERSION", "PRODID", "CALSCALE">>, <<v, p, c>>),
              <<GoodEvent, GoodTodo>>, NoDate, NoDate) :
        v \in VersionIn, p \in ProdidIn, c \in CalscaleIn}

DateIn == Opt({"", "20250728T140000Z", "20250728T130000", "20250728",
               "2025-07-28T15:00:00Z", "99991231T233000Z", "20251301T000000Z"})
PresenceIn == Opt({"", "x"})

\* the optional properties of an event: all present, or all absent
Full == <<>>
Bare == <<<<"CREATED", None>>, <<"LAST-MODIFIED", None>>, <<"CLASS", None>>,
          <<"STATUS", None>>, <<"TRANSP", None>>>>

\* one event that differs in its date-time properties and in its size
DateInputs ==
    {Calendar(GoodCalProps,
              <<Event(<<<<"DTSTART", start>>, <<"DTEND", end>>>> \o optional, n, <<>>)>>,
              NoDate, NoDate) :
        start \in DateIn, end \in DateIn, optional \in {Full, Bare}, n \in 0..MaxOther}

\* one event that differs in its required properties and in its size
RequiredInputs ==
    {Calendar(GoodCalProps,
              <<Event(<<<<"UID", uid>>, <<"DTSTAMP", stamp>>, <<"SUMMARY", summary>>,
                        <<"DTSTART", start>>, <<"DTEND", end>>>> \o optional, n, <<>>)>>,
              NoDate, NoDate) :
        uid \in PresenceIn, stamp \in PresenceIn, summary \in PresenceIn,
        start \in Opt({"20250728T140000Z"}), end \in Opt({"20250728T150000Z"}),
        optional \in {Full, Bare}, n \in 0..MaxOther}

ClassIn == Opt({"", "PRIVATE", "Confidential", "X-SECRET", "x-secret", "INTERNAL"})
StatusIn == Opt({"", "cancelled", "X-HOLD", "DRAFT"})
TranspIn == Opt({"", "Transparent", "x-busy", "BUSY"})
ActionIn == Opt({"", "DISPLAY", "email", "Audio", "X-PING", "PROCEDURE"})

\* one event that differs in its enumerated properties, with one alarm
EnumInputs ==
    {Calendar(GoodCalProps,
              <<Event(<<<<"CLASS", class>>, <<"STATUS", status>>, <<"TRANSP", transp>>>>, 0,
                      <<Alarm(action, Some("-PT5M"), Some("Wake up"), Some("Note"))>>)>>,
              NoDate, NoDate) :
        class \in ClassIn, status \in StatusIn, transp \in TranspIn, action \in ActionIn}

AlarmIn ==
    {Alarm(action, trigger, description, summary) :
        action \in Opt({"DISPLAY", "email", "Audio"}), trigger \in Opt({"-PT5M"}),
        description \in Opt({""}), summary \in Opt({""})}

\* one event that differs in its SUMMARY and its alarms
AlarmInputs ==
    {Calendar(GoodCalProps, <<Event(<<<<"SUMMARY", summary>>>>, 0, alarms)>>, NoDate, NoDate) :
        summary \in Opt({"", "Standup"}), alarms \in SeqsUpTo(AlarmIn, MaxAlarms)}

\* what a to-do holds besides: nothing, or date-times that are not in the
\* canonical form, enumerated properties no validator accepts and an alarm
\* without any property
TodoRestIn ==
    {[more |-> <<>>, alarms |-> <<>>],
     [more |-> <<Prop("DTSTART", "2025-07-28"), Prop("DUE", "20250728T120000"),
                 Prop("STATUS", "DRAFT"), Prop("CLASS", "INTERNAL")>>,
      alarms |-> <<Alarm(None, None, None, None)>>]}

\* one to-do that differs in its required properties and in what it holds
\* besides, after an event or not
TodoInputs ==
    {Calendar(GoodCalProps,
              events \o <<TodoWith(uid, stamp, summary, rest.more, rest.alarms)>>,
              NoDate, NoDate) :
        uid \in PresenceIn, stamp \in PresenceIn, summary \in Opt({"", "Buy milk"}),
        rest \in TodoRestIn, events \in {<<>>, <<GoodEvent>>}}

\* the from and to of TestDateFiltering, as time.Parse("2006-01-02") reads them
FromIn == {NoDate, Instant(20250601, 0), Instant(20251201, 0)}
ToIn == {NoDate, Instant(20250831, 0), Instant(20251201, 0)}

\* the DTSTART of an event of the filter inputs: absent, before from, on
\* to + 1 day, one second later, or unparseable
StartIn == Opt({"20250101T120000Z", "20251202T000000Z", "20251202T000001Z", "next week"})

\* the UID of the i-th event: one per event, or none at all
UidIn(scheme, i) ==
    IF scheme = "distinct" THEN Some("event" \o Itoa(i) \o "@example.com") ELSE None

\* calendars of a few events and a to-do, with the bounds of the window
FilterInputs ==
    {Calendar(GoodCalProps,
              [i \in 1..Len(starts) |->
                  Event(<<<<"UID", UidIn(scheme, i)>>, <<"DTSTART", starts[i]>>>>, 0, <<>>)]
                  \o <<GoodTodo>>,
              from, to) :
        starts \in SeqsUpTo(StartIn, MaxFiltered), scheme \in {"distinct", "absent"},
        from \in {NoDate, Instant(20250601, 0)}, to \in {NoDate, Instant(20251201, 0)}}

\* the UIDs of the three events of TestDateFiltering: those of the test, one
\* UID for all three, or none
TestUidIn ==
    {<<Some("event1@example.com"), Some("event2@example.com"), Some("event3@example.com")>>,
     <<Some("event1@example.com"), Some("event1@example.com"), Some("event1@example.com")>>,
     <<None, None, None>>}

TestFilterInputs ==
    {Calendar(GoodCalProps,
              <<Event(<<<<"UID", u[1]>>, <<"DTSTART", Some("20250101T120000Z")>>,
                        <<"DTEND", Some("20250101T130000Z")>>>>, 0, <<>>),
                Event(<<<<"UID", u[2]>>, <<"DTSTART", Some("20250615T140000Z")>>,
                        <<"DTEND", Some("20250615T150000Z")>>>>, 0, <<>>),
                Event(<<<<"UID", u[3]>>, <<"DTSTART", Some("20251225T180000Z")>>,
                        <<"DTEND", Some("20251225T190000Z")>>>>, 0, <<>>)>>,
              from, to) :
        u \in TestUidIn, from \in FromIn, to \in ToIn}

Inputs ==
    CalendarInputs \cup DateInputs \cup RequiredInputs \cup EnumInputs \cup AlarmInputs
        \cup TodoInputs \cup FilterInputs \cup TestFilterInputs

\* the readings of time.Now() and the outputs of rand.Read, as hex
Clock == {Instant(20261104, 101500), Instant(20261104, 233000)}
RandomHex == {"000102030405060708090a0b0c0d0e0f", "f0e1d2c3b4a5968778695a4b3c2d1e0f"}

\* the values a call can observe: all of S when the call reads, one
\* arbitrary value when it does not
ReadIf(reads, S) == IF reads THEN S ELSE {CHOOSE v \in S : TRUE}

(***************************************************************************)
(* The pipeline of ProcessICalData, from the parsed calendar on            *)
(***************************************************************************)
VARIABLES
    calProps,       \* calendar.CalendarProperties
    components,     \* calendar.Components
    fromDate,       \* the bounds of the window, NoDate for nil
    toDate,
    fixLog,         \* the FixLog of fixCalendar
    pc,             \* position in the pipeline
    idx,            \* index of the event or to-do loop of fixCalendar
    input,          \* the parsed calendar, as it was handed to the pipeline
    calls,          \* per event: fixEvent calls so far, the event before
                    \* the last call and the log that call returned
    call,           \* the helper function called on its own, its argument
                    \* and what it returned
    icalData,       \* the bytes ProcessICalData is called with
    result,         \* the text and the error ProcessICalData returned
    history,        \* what the calls before this one returned
    proxy,          \* the request handleProxy serves, its position in the
                    \* handler, the fetches it issued and its response
    other           \* the locals of a second ProcessICalData call, which
                    \* runs when the scheduler switches to it

vars == <<calProps, components, fromDate, toDate, fixLog, pc, idx, input, calls, call,
          icalData, result, history, proxy, other>>

\* what is around a ProcessICalData call
around == <<proxy, other>>

\* what the pipeline leaves alone
outer == <<call, icalData, result, history, around>>

\* handleProxy is not running
NoRequest == [pc |-> "none"]

\* there is no second call
NoOther == [pc |-> "none"]

\* no helper function is called on its own
NoFunction == [fn |-> "", arg |-> "", step |-> "none"]

\* ProcessICalData has not returned
NoResult == [text |-> "", err |-> "", returned |-> FALSE]

NoCall(c) == [n |-> 0, before |-> c, log |-> <<>>]

Init ==
    \E cal \in Inputs :
        /\ calProps = cal.calProps
        /\ components = cal.components
        /\ fromDate = cal.from
        /\ toDate = cal.to
        /\ fixLog = <<>>
        /\ pc = "parsed"
        /\ idx = 1
        /\ input = cal
        /\ calls = [i \in 1..Len(cal.components) |-> NoCall(cal.components[i])]
        /\ call = NoFunction
        /\ icalData = Serialize(cal.calProps, cal.components)
        /\ result = NoResult
        /\ history = <<>>
        /\ proxy = NoRequest
        /\ other = NoOther

\* the component with identity p in a list that holds it
ByPos(list, p) == list[CHOOSE i \in 1..Len(list) : list[i].pos = p]
Holds(list, p) == \E i \in 1..Len(list) : list[i].pos = p

Replace(list, c) == [i \in 1..Len(list) |-> IF list[i].pos = c.pos THEN c ELSE list[i]]

\* where fixCalendar goes after the calendar properties or after the events
AfterProperties(comps) ==
    IF Len(Events(comps)) > 0 THEN "events"
    ELSE IF Len(Todos(comps)) > 0 THEN "todos" ELSE "fixed"

\* ProcessICalData: the filter runs when a bound is given
ApplyDateFilter ==
    /\ pc = "parsed"
    /\ components' = IF fromDate.ok \/ toDate.ok
                     THEN filterEventsByDate(components, fromDate, toDate)
                     ELSE components
    /\ pc' = "filtered"
    /\ UNCHANGED <<calProps, fromDate, toDate, fixLog, idx, input, calls, outer>>

\* fixCalendar: the calendar-level properties
FixCalendarProperties ==
    /\ pc = "filtered"
    /\ LET st == fixCalendarProperties(FixState(calProps, fixLog))
       IN  /\ calProps' = st.c
           /\ fixLog' = st.log
    /\ pc' = AfterProperties(components)
    /\ idx' = 1
    /\ UNCHANGED <<components, fromDate, toDate, input, calls, outer>>

\* the values fixEvent can take from outside when called on event
ReadsOf(event) ==
    {Reads(hex, stamp, dt, created, modified) :
        hex \in ReadIf(~HasProperty(event, "UID"), RandomHex),
        stamp \in ReadIf(~HasProperty(event, "DTSTAMP"), Clock),
        dt \in ReadIf(~HasProperty(event, "DTSTART") \/ ~HasProperty(event, "DTEND"), Clock),
        created \in ReadIf(~HasProperty(event, "CREATED"), Clock),
        modified \in ReadIf(~HasProperty(event, "LAST-MODIFIED"), Clock)}

\* fixCalendar: one turn of the loop over calendar.Events()
FixEventStep ==
    /\ pc = "events"
    /\ LET event == Events(components)[idx]
       IN  \E r \in ReadsOf(event) :
             \E st \in {fixEvent(event, r)} :
                 /\ components' = Replace(components, st.c)
                 /\ fixLog' = IF Len(st.log) > 0
                              THEN AddFix(fixLog, "Event " \o Itoa(idx) \o ": "
                                                      \o Join(st.log, ", "))
                              ELSE fixLog
                 /\ calls' = [calls EXCEPT ![event.pos] =
                                [n |-> @.n + 1, before |-> event, log |-> st.log]]
    /\ IF idx < Len(Events(components))
       THEN pc' = "events" /\ idx' = idx + 1
       ELSE /\ pc' = IF Len(Todos(components)) > 0 THEN "todos" ELSE "fixed"
            /\ idx' = 1
    /\ UNCHANGED <<calProps, fromDate, toDate, input, outer>>

\* fixCalendar: one turn of the loop over calendar.Todos()
FixTodoStep ==
    /\ pc = "todos"
    /\ LET todo == Todos(components)[idx]
       IN  \E hex \in ReadIf(~HasProperty(todo, "UID"), RandomHex),
              now \in ReadIf(~HasProperty(todo, "DTSTAMP"), Clock) :
             \E st \in {fixTodo(todo, hex, now)} :
                 /\ components' = Replace(components, st.c)
                 /\ fixLog' = IF Len(st.log) > 0
                              THEN AddFix(fixLog, "Todo " \o Itoa(idx) \o ": "
                                                      \o Join(st.log, ", "))
                              ELSE fixLog
                 /\ calls' = [calls EXCEPT ![todo.pos] =
                                [n |-> @.n + 1, before |-> todo, log |-> st.log]]
    /\ IF idx < Len(Todos(components))
       THEN pc' = "todos" /\ idx' = idx + 1
       ELSE pc' = "fixed" /\ idx' = 1
    /\ UNCHANGED <<calProps, fromDate, toDate, input, outer>>

\* fixEvent called once more on the first event of the fixed calendar, as
\* the tests call it on the one event they build
FixEventAgain ==
    /\ pc \in {"fixed", "refixed"}
    /\ Len(Events(components)) > 0
    /\ LET event == Events(components)[1]
       IN  /\ calls[event.pos].n < MaxFixCalls
           /\ \E r \in ReadsOf(event) :
                \E st \in {fixEvent(event, r)} :
                    /\ components' = Replace(components, st.c)
                    /\ calls' = [calls EXCEPT ![event.pos] =
                                   [n |-> @.n + 1, before |-> event, log |-> st.log]]
    /\ pc' = "refixed"
    /\ UNCHANGED <<calProps, fromDate, toDate, fixLog, idx, input, outer>>

Next ==
    \/ ApplyDateFilter
    \/ FixCalendarProperties
    \/ FixEventStep
    \/ FixTodoStep
    \/ FixEventAgain

Spec == Init /\ [][Next]_vars

(***************************************************************************)
(* ProcessICalData, from the bytes it is called with to what it returns    *)
(***************************************************************************)
MaxInvocations == 2     \* calls of ProcessICalData with the same arguments

\* the TZID of DTSTART and DTEND: none, UTC, an Olson name, the long name
\* Evolution writes, and a Windows name, which holds a colon and a comma
TzidIn ==
    {<<>>,
     <<<<"TZID", "UTC">>>>,
     <<<<"TZID", "Europe/Berlin">>>>,
     <<<<"TZID", "/freeassociation.sourceforge.net/Tzfile/Europe/Berlin">>>>,
     <<<<"TZID", "(UTC+01:00) Amsterdam, Berlin">>>>}

\* props with the parameters on its entry called name
WithParams(props, name, params) ==
    [i \in 1..Len(props) |->
        IF props[i].name = name THEN PropWith(name, params, props[i].value) ELSE props[i]]

ZonedEvent(uid, start, end, params) ==
    Parsed("VEVENT",
           WithParams(WithParams(BuildProps(EventNames,
                                            With(GoodEventOpts,
                                                 <<<<"UID", uid>>, <<"DTSTART", start>>,
                                                   <<"DTEND", end>>>>)),
                                 "DTSTART", params),
                      "DTEND", params),
           <<>>)

\* one event that differs in its UID and in the values and the TZID of its
\* DTSTART and DTEND
ZonedDocuments ==
    {Calendar(GoodCalProps, <<ZonedEvent(uid, start, end, params)>>, NoDate, NoDate) :
        uid \in Opt({"test@example.com"}),
        start \in Opt({"20250728T120000Z", "20250728T120000", "2025-07-28", "", "next week"}),
        end \in Opt({"20250728T130000Z", "20250728T130000"}),
        params \in TzidIn}

\* the calendar of TestFixICalDataEdgeCases that is only the wrapper; an
\* event without DTSTAMP and DTEND in a calendar with a VERSION only; a
\* calendar with an alarm and a to-do; two events of one UID, in July and
\* in January
EdgeDocuments ==
    {Calendar(<<>>, <<>>, NoDate, NoDate),
     Calendar(GoodCalProps,
              <<Event(<<<<"UID", Some("weekly@example.com")>>,
                        <<"DTSTART", Some("20250728T140000Z")>>,
                        <<"DTEND", Some("20250728T150000Z")>>>>, 0, <<>>),
                Event(<<<<"UID", Some("weekly@example.com")>>,
                        <<"DTSTART", Some("20250101T120000Z")>>,
                        <<"DTEND", Some("20250101T130000Z")>>>>, 0, <<>>)>>,
              NoDate, NoDate),
     Calendar(<<Prop("VERSION", "2.0")>>,
              <<Parsed("VEVENT", <<Prop("UID", "event1@example.com"),
                                   Prop("SUMMARY", "Event 1"),
                                   Prop("DTSTART", "20250728T120000Z"),
                                   Prop("CREATED", "20250728T120000Z"),
                                   Prop("LAST-MODIFIED", "20250728T120000Z")>>, <<>>)>>,
              NoDate, NoDate),
     Calendar(GoodCalProps,
              <<Event(<<>>, 0, <<Alarm(Some("DISPLAY"), Some("-PT5M"), None, None)>>),
                Todo(None, Some("20250728T120000Z"), Some("Buy milk"))>>,
              NoDate, NoDate)}

ProcessDocuments == ZonedDocuments \cup EdgeDocuments

\* texts the parser rejects
InvalidData == {"This is not valid iCal data", "BEGIN:VEVENT\r\nEND:VEVENT\r\n"}

\* what ics.ParseCalendar makes of a text that is not a calendar
NotACalendar == [Calendar(<<>>, <<>>, NoDate, NoDate) EXCEPT !.parses = FALSE]

\* the from and to of a request: none, a window around the event, a window
\* after it
WindowIn ==
    {<<NoDate, NoDate>>, <<Instant(20250601, 0), Instant(20251201, 0)>>,
     <<Instant(20250801, 0), NoDate>>}

\* the arguments of a call, and what the parser makes of the bytes: the
\* bytes of a document are the document as Serialize writes it
Arguments(data, cal, window) ==
    [data |-> data, cal |-> [cal EXCEPT !.from = window[1], !.to = window[2]]]

ProcessInputs ==
    {Arguments(Serialize(d.calProps, d.components), d, w) :
        d \in ProcessDocuments, w \in WindowIn}
      \cup {Arguments(data, NotACalendar, w) : data \in {""} \cup InvalidData, w \in WindowIn}

Result(text, err) == [text |-> text, err |-> err, returned |-> TRUE]

\* Refusal with the check for empty input left to the parser
Refusal_ParserOnly(data, cal) ==
    IF ~cal.parses THEN "invalid iCal format" ELSE ""

\* Refusal that also refuses a calendar without components
Refusal_NoComponents(data, cal) ==
    IF Len(data) = 0 THEN "empty iCal data"
    ELSE IF ~cal.parses \/ cal.components = <<>> THEN "invalid iCal format"
    ELSE ""

\* ProcessICalData up to the parser: the error it returns for data that the
\* parser reads as cal, "" when it goes on
Refusal(data, cal) ==
    IF Len(data) = 0 THEN "empty iCal data"
    ELSE IF ~cal.parses THEN "invalid iCal format"
    ELSE ""

InitProcess ==
    /\ \E in \in ProcessInputs :
        /\ icalData = in.data
        /\ input = in.cal
        /\ fromDate = in.cal.from
        /\ toDate = in.cal.to
    /\ calProps = <<>>
    /\ components = <<>>
    /\ fixLog = <<>>
    /\ pc = "called"
    /\ idx = 1
    /\ calls = <<>>
    /\ result = NoResult
    /\ history = <<>>
    /\ call = NoFunction
    /\ proxy = NoRequest
    /\ other = NoOther

\* ProcessICalData: len(icalData) == 0
RejectEmpty ==
    /\ pc = "called"
    /\ Len(icalData) = 0
    /\ result' = Result("", Refusal(icalData, input))
    /\ pc' = "returned"
    /\ UNCHANGED <<calProps, components, fromDate, toDate, fixLog, idx, input, calls,
                   call, icalData, history, around>>

\* ProcessICalData: the parser returns an error
RejectInvalid ==
    /\ pc = "called"
    /\ Len(icalData) # 0
    /\ Refusal(icalData, input) # ""
    /\ result' = Result("", Refusal(icalData, input))
    /\ pc' = "returned"
    /\ UNCHANGED <<calProps, components, fromDate, toDate, fixLog, idx, input, calls,
                   call, icalData, history, around>>

\* ProcessICalData: the parser returns the calendar
ParseInput ==
    /\ pc = "called"
    /\ Refusal(icalData, input) = ""
    /\ calProps' = input.calProps
    /\ components' = input.components
    /\ calls' = [i \in 1..Len(input.components) |-> NoCall(input.components[i])]
    /\ pc' = "parsed"
    /\ UNCHANGED <<fromDate, toDate, fixLog, idx, input, call, icalData, result, history,
                   around>>

\* ProcessICalData: Serialize, applyPostSerializationFixes and the return
SerializeAndReturn ==
    /\ pc = "fixed"
    /\ \E fixed \in {applyPostSerializationFixes(Serialize(calProps, components), fixLog)} :
        /\ result' = Result(fixed.text, "")
        /\ fixLog' = fixed.log
    /\ pc' = "returned"
    /\ UNCHANGED <<calProps, components, fromDate, toDate, idx, input, calls,
                   call, icalData, history, around>>

\* ProcessICalData is called once more with the same arguments
CallAgain ==
    /\ pc = "returned"
    /\ Len(history) + 1 < MaxInvocations
    /\ history' = Append(history, result)
    /\ calProps' = <<>>
    /\ components' = <<>>
    /\ fixLog' = <<>>
    /\ pc' = "called"
    /\ idx' = 1
    /\ calls' = <<>>
    /\ result' = NoResult
    /\ UNCHANGED <<fromDate, toDate, input, call, icalData, around>>

NextProcess ==
    \/ RejectEmpty
    \/ RejectInvalid
    \/ ParseInput
    \/ ApplyDateFilter
    \/ FixCalendarProperties
    \/ FixEventStep
    \/ FixTodoStep
    \/ SerializeAndReturn
    \/ CallAgain

SpecProcess == InitProcess /\ [][NextProcess]_vars

(***************************************************************************)
(* The helper functions, each called on its own as the tests call them      *)
(***************************************************************************)
MaxLines == 2       \* lines of the text handed to fixTzidOnUtcTimes

\* lines of a serialized calendar: DTSTART and DTEND with and without TZID,
\* in UTC and in local time, a TZID in quotes that holds a colon, a
\* parameter whose name only ends in TZID, other properties, an empty line
TzidLines ==
    {"DTSTART;TZID=UTC:20250728T120000Z",
     "DTEND;TZID=UTC:20250728T130000Z",
     "DTSTART;TZID=Europe/Berlin:20250728T120000",
     "DTSTART;TZID=\"(UTC+01:00) Berlin\":20250728T120000Z",
     "DTEND;VALUE=DATE-TIME;TZID=UTC:20250728T130000Z",
     "DTSTART;X-NOTZID=1:20250728T120000Z",
     "DTSTART:20250728T120000Z",
     "DTEND;VALUE=DATE:20250728",
     "DUE;TZID=UTC:20250728T130000Z",
     "DTSTART;TZID=UTC",
     "BEGIN:VCALENDAR",
     ""}

\* texts of up to MaxLines lines, with and without the CRLF after the last
TzidTexts ==
    {Join(lines, "\r\n") \o end : lines \in SeqsUpTo(TzidLines, MaxLines), end \in {"", "\r\n"}}

\* date-time texts: a date, a time and a zone, each in several spellings
DateTexts == {"20250728", "2025-07-28", "2025:07:28", "20251301", "2025072", ""}
TimeTexts == {"", "T120000", "T12:00:00", " 12:00:00", "T256000", "T1200"}
ZoneTexts == {"", "Z", "z", "+0100"}

DateTimeTexts == {d \o t \o z : d \in DateTexts, t \in TimeTexts, z \in ZoneTexts}

\* values of CLASS, STATUS, TRANSP and ACTION: the standard ones in upper,
\* lower and mixed case, experimental names, and tokens that are neither
EnumTexts ==
    {"PUBLIC", "private", "Confidential", "TENTATIVE", "confirmed", "Cancelled",
     "OPAQUE", "transparent", "AUDIO", "display", "Email", "PROCEDURE",
     "", " ", "X-", "x-", "X-CUSTOM", "x-custom", "X", "-X-CUSTOM", " X-CUSTOM",
     "PUBLIC ", "PUBLICX-", "INVALID", "NEEDS-ACTION", "COMPLETED", "BUSY", "DRAFT"}

Called(fn, arg) == [fn |-> fn, arg |-> arg, step |-> "called"]

FunctionCalls ==
    {Called("fixTzidOnUtcTimes", text) : text \in TzidTexts}
        \cup {Called("normalizeDateTime", value) : value \in DateTimeTexts}
        \cup {Called(fn, value) :
                fn \in {"isValidClassValue", "isValidStatusValue",
                        "isValidTranspValue", "isValidActionValue"},
                value \in EnumTexts}

InitFunctions ==
    /\ call \in FunctionCalls
    /\ calProps = <<>>
    /\ components = <<>>
    /\ fromDate = NoDate
    /\ toDate = NoDate
    /\ fixLog = <<>>
    /\ pc = "function"
    /\ idx = 1
    /\ input = Calendar(<<>>, <<>>, NoDate, NoDate)
    /\ calls = <<>>
    /\ icalData = ""
    /\ result = NoResult
    /\ history = <<>>
    /\ proxy = NoRequest
    /\ other = NoOther

\* the call returns ret
Return(ret) ==
    /\ call.step = "called"
    /\ call' = [fn |-> call.fn, arg |-> call.arg, step |-> "returned", ret |-> ret]
    /\ UNCHANGED <<calProps, components, fromDate, toDate, fixLog, pc, idx, input, calls,
                   icalData, result, history, around>>

\* a second function is called on what the first returned
Follow(step, after) ==
    /\ call.step = "returned"
    /\ call' = [fn |-> call.fn, arg |-> call.arg, step |-> step, ret |-> call.ret,
                after |-> after]
    /\ UNCHANGED <<calProps, components, fromDate, toDate, fixLog, pc, idx, input, calls,
                   icalData, result, history, around>>

CallFixTzidOnUtcTimes ==
    /\ call.fn = "fixTzidOnUtcTimes"
    /\ Return(fixTzidOnUtcTimes(call.arg))

CallNormalizeDateTime ==
    /\ call.fn = "normalizeDateTime"
    /\ Return(normalizeDateTime(call.arg))

\* normalizeDateTime on a value it returned
NormalizeAgain ==
    /\ call.fn = "normalizeDateTime"
    /\ Follow("normalized again", normalizeDateTime(call.ret))

\* parseDateTime on a value normalizeDateTime returned, as fixEventDateTimes
\* calls it
ParseNormalized ==
    /\ call.fn = "normalizeDateTime"
    /\ Follow("parsed", parseDateTime(call.ret))

CallIsValidClassValue ==
    /\ call.fn = "isValidClassValue"
    /\ Return(isValidClassValue(call.arg))

CallIsValidStatusValue ==
    /\ call.fn = "isValidStatusValue"
    /\ Return(isValidStatusValue(call.arg))

CallIsValidTranspValue ==
    /\ call.fn = "isValidTranspValue"
    /\ Return(isValidTranspValue(call.arg))

CallIsValidActionValue ==
    /\ call.fn = "isValidActionValue"
    /\ Return(isValidActionValue(call.arg))

NextFunctions ==
    \/ CallFixTzidOnUtcTimes
    \/ CallNormalizeDateTime
    \/ NormalizeAgain
    \/ ParseNormalized
    \/ CallIsValidClassValue
    \/ CallIsValidStatusValue
    \/ CallIsValidTranspValue
    \/ CallIsValidActionValue

SpecFunctions == InitFunctions /\ [][NextFunctions]_vars

(***************************************************************************)
(* handleProxy: the checks of the request, the fetch from the upstream,    *)
(* the call of ProcessICalData and the response                            *)
(***************************************************************************)
IsLetter(c) == UpperChar(c) \in {Char(UpperLetters, i) : i \in 1..26}

\* url.getScheme, from character i on: the position of the colon that ends
\* the scheme, 0 when rawURL has no scheme, -1 for "missing protocol scheme"
RECURSIVE getScheme(_, _)
getScheme(rawURL, i) ==
    IF i > Len(rawURL) THEN 0
    ELSE IF IsLetter(Char(rawURL, i)) THEN getScheme(rawURL, i + 1)
    ELSE IF IsDigit(Char(rawURL, i)) \/ Char(rawURL, i) \in {"+", "-", "."}
    THEN (IF i = 1 THEN 0 ELSE getScheme(rawURL, i + 1))
    ELSE IF Char(rawURL, i) = ":" THEN (IF i = 1 THEN -1 ELSE i)
    ELSE 0

\* strings.Cut(s, sep), the part before sep
UpTo(s, sep) == IF Contains(s, sep) THEN SubSeq(s, 1, Index(s, sep) - 1) ELSE s

\* url.Parse of a text without query and fragment: the scheme, and err for
\* a colon at the start, a colon in the first path segment of a text
\* without scheme, and a space in the host
ParseURL(rawURL) ==
    LET colon == getScheme(rawURL, 1)
        rest == SubSeq(rawURL, IF colon > 0 THEN colon + 1 ELSE 1, Len(rawURL))
    IN  [scheme |-> IF colon > 0 THEN SubSeq(rawURL, 1, colon - 1) ELSE "",
         err |-> \/ colon = -1
                 \/ colon = 0 /\ ~HasPrefix(rest, "/") /\ Contains(UpTo(rest, "/"), ":")
                 \/ /\ HasPrefix(rest, "//")
                    /\ colon > 0 \/ ~HasPrefix(rest, "///")
                    /\ Contains(UpTo(SubSeq(rest, 3, Len(rest)), "/"), " ")]

\* err != nil || !parsedURL.IsAbs()
InvalidURL(urlParam) == ParseURL(urlParam).err \/ ParseURL(urlParam).scheme = ""

\* time.Parse("2006-01-02", param) returns an error
InvalidDate(param) == ~TimeParse(LayoutDashDate, param).ok

\* fromDate and toDate: nil for a parameter that is not given
DateOf(param) == IF param = "" THEN NoDate ELSE TimeParse(LayoutDashDate, param)

\* http.Error(w, message, code)
Error(message, code) == [status |-> code, body |-> message \o "\n"]

NotRejected == [status |-> 0, body |-> ""]

\* handleProxy with the url looked at before the method
Rejection_UrlFirst(r) ==
    IF r.url = "" THEN Error("Missing 'url' parameter", 400)
    ELSE IF r.method # "GET" THEN Error("Invalid request method", 405)
    ELSE IF InvalidURL(r.url) THEN Error("Invalid 'url' parameter", 400)
    ELSE IF r.from # "" /\ InvalidDate(r.from)
    THEN Error("Invalid 'from' date format. Use YYYY-MM-DD", 400)
    ELSE IF r.to # "" /\ InvalidDate(r.to)
    THEN Error("Invalid 'to' date format. Use YYYY-MM-DD", 400)
    ELSE NotRejected

\* handleProxy up to the fetch: the error it answers the request r with, or
\* NotRejected when it goes on
Rejection(r) ==
    IF r.method # "GET" THEN Error("Invalid request method", 405)
    ELSE IF r.url = "" THEN Error("Missing 'url' parameter", 400)
    ELSE IF InvalidURL(r.url) THEN Error("Invalid 'url' parameter", 400)
    ELSE IF r.from # "" /\ InvalidDate(r.from)
    THEN Error("Invalid 'from' date format. Use YYYY-MM-DD", 400)
    ELSE IF r.to # "" /\ InvalidDate(r.to)
    THEN Error("Invalid 'to' date format. Use YYYY-MM-DD", 400)
    ELSE NotRejected

\* the request as r.Method and r.URL.Query().Get read it
Request(method, urlParam, fromParam, toParam) ==
    [method |-> method, url |-> urlParam, from |-> fromParam, to |-> toParam]

MethodIn == {"GET", "POST"}
UrlIn == {"", "not-a-url", "://example.com", "http://exa mple.com/calendar.ics",
          "http://example.com/calendar.ics", "webcal://example.com/calendar.ics"}
FromParamIn == {"", "2025-06-01", "invalid-date", "20250601"}
ToParamIn == {"", "2025-12-01", "2025-13-01"}

Requests ==
    {Request(m, u, f, t) : m \in MethodIn, u \in UrlIn, f \in FromParamIn, t \in ToParamIn}

\* what the upstream does when it is asked: the error of client.Get, the
\* status, the error of io.ReadAll, and the body with what the parser makes
\* of it
Upstream(getErr, status, readErr, served) ==
    [getErr |-> getErr, status |-> status, readErr |-> readErr, served |-> served]

Served ==
    {Arguments(data, NotACalendar, <<NoDate, NoDate>>) :
        data \in {"", "This is not valid iCal data"}}
      \cup {Arguments(Serialize(d.calProps, d.components), d, <<NoDate, NoDate>>) :
              d \in {Calendar(GoodCalProps,
                              <<Event(<<<<"DTSTART", Some(start)>>>>, 0, <<>>), GoodTodo>>,
                              NoDate, NoDate) :
                        start \in {"20250728T140000Z", "20250101T120000Z"}}}

Upstreams ==
    {Upstream(TRUE, 0, FALSE, s) : s \in {CHOOSE s \in Served : s.data = ""}}
      \cup {Upstream(FALSE, status, readErr, s) :
              status \in {200, 404}, readErr \in {FALSE, TRUE}, s \in Served}

\* client.Get(urlParam): the http client has a transport for http and
\* https only, and fails when the upstream cannot be reached
Get(urlParam, upstream) ==
    IF ParseURL(urlParam).scheme \notin {"http", "https"} \/ upstream.getErr
    THEN [err |-> TRUE, status |-> 0]
    ELSE [err |-> FALSE, status |-> upstream.status]

Received(request, upstream) ==
    [pc |-> "received", request |-> request, upstream |-> upstream, fetches |-> 0,
     status |-> 0, body |-> ""]

InitProxy ==
    /\ \E r \in Requests, u \in Upstreams : proxy = Received(r, u)
    /\ calProps = <<>>
    /\ components = <<>>
    /\ fromDate = NoDate
    /\ toDate = NoDate
    /\ fixLog = <<>>
    /\ pc = "idle"
    /\ idx = 1
    /\ input = NotACalendar
    /\ calls = <<>>
    /\ call = NoFunction
    /\ icalData = ""
    /\ result = NoResult
    /\ history = <<>>
    /\ other = NoOther

\* w.WriteHeader and w.Write, or http.Error, and the return
Responded(answer) ==
    [proxy EXCEPT !.pc = "responded", !.status = answer.status, !.body = answer.body]

pipeline == <<calProps, components, fromDate, toDate, fixLog, pc, idx, input, calls,
              call, icalData, result, history, other>>

\* handleProxy: one of the checks of the request fails
RejectRequest ==
    /\ proxy.pc = "received"
    /\ Rejection(proxy.request) # NotRejected
    /\ proxy' = Responded(Rejection(proxy.request))
    /\ UNCHANGED pipeline

\* handleProxy: client.Get and the test of its result
FetchUpstream ==
    /\ proxy.pc = "received"
    /\ Rejection(proxy.request) = NotRejected
    /\ \E resp \in {Get(proxy.request.url, proxy.upstream)} :
         proxy' = IF resp.err \/ resp.status # 200
                  THEN [Responded(Error("Failed to fetch iCal file", 500)) EXCEPT
                           !.fetches = @ + 1]
                  ELSE [proxy EXCEPT !.pc = "fetched", !.fetches = @ + 1]
    /\ UNCHANGED pipeline

\* handleProxy: io.ReadAll fails
ReadFails ==
    /\ proxy.pc = "fetched"
    /\ proxy.upstream.readErr
    /\ proxy' = Responded(Error("Failed to read iCal file content", 500))
    /\ UNCHANGED pipeline

\* handleProxy: io.ReadAll and the call of ProcessICalData
CallProcessICalData ==
    /\ proxy.pc = "fetched"
    /\ ~proxy.upstream.readErr
    /\ proxy' = [proxy EXCEPT !.pc = "processing"]
    /\ icalData' = proxy.upstream.served.data
    /\ fromDate' = DateOf(proxy.request.from)
    /\ toDate' = DateOf(proxy.request.to)
    /\ input' = [proxy.upstream.served.cal EXCEPT !.from = DateOf(proxy.request.from),
                                                 !.to = DateOf(proxy.request.to)]
    /\ pc' = "called"
    /\ UNCHANGED <<calProps, components, fixLog, idx, calls, call, result, history, other>>

\* handleProxy: what it answers after ProcessICalData has returned
Respond ==
    /\ proxy.pc = "processing"
    /\ pc = "returned"
    /\ proxy' = IF result.err # ""
                THEN Responded(Error("Failed to process iCal data: " \o result.err, 400))
                ELSE Responded([status |-> 200, body |-> result.text])
    /\ UNCHANGED pipeline

NextProxy ==
    \/ RejectRequest
    \/ FetchUpstream
    \/ ReadFails
    \/ CallProcessICalData
    \/ RejectEmpty
    \/ RejectInvalid
    \/ ParseInput
    \/ ApplyDateFilter
    \/ FixCalendarProperties
    \/ FixEventStep
    \/ FixTodoStep
    \/ SerializeAndReturn
    \/ Respond

SpecProxy == InitProxy /\ [][NextProxy]_vars

(***************************************************************************)
(* Two ProcessICalData calls at once, as two requests make them.  The      *)
(* variables of the pipeline are the locals of the call that runs; the     *)
(* locals of the call that waits are in other, and the scheduler switches  *)
(* between the two at any step.  ProcessICalData and the functions under   *)
(* it have no package-level variable: the calendar is the one ParseCalendar*)
(* returned to this call and the log is the FixLog this call allocated.    *)
(***************************************************************************)
\* the arguments and the local variables of the call that runs
Locals ==
    [icalData |-> icalData, fromDate |-> fromDate, toDate |-> toDate, input |-> input,
     calProps |-> calProps, components |-> components, fixLog |-> fixLog,
     pc |-> pc, idx |-> idx, calls |-> calls, result |-> result]

\* the locals of a call at its start
CalledWith(in) ==
    [icalData |-> in.data, fromDate |-> in.cal.from, toDate |-> in.cal.to, input |-> in.cal,
     calProps |-> <<>>, components |-> <<>>, fixLog |-> <<>>,
     pc |-> "called", idx |-> 1, calls |-> <<>>, result |-> NoResult]

\* Resume with one FixLog for both calls
Resume_SharedLog(waiting, running) == [waiting EXCEPT !.fixLog = running.fixLog]

\* what the call that waited finds when it runs again, running being the
\* locals of the call that ran meanwhile: its own locals
Resume(waiting, running) == waiting

\* an empty text, a text that is no calendar, an event in local time with
\* a TZID and no UID, an event with an alarm before a to-do without UID in
\* a window, and an event after the window in a calendar of VERSION 1.0
ConcurrentInputs ==
    {Arguments("", NotACalendar, <<NoDate, NoDate>>),
     Arguments("This is not valid iCal data", NotACalendar, <<NoDate, NoDate>>)}
      \cup {Arguments(Serialize(aw[1].calProps, aw[1].components), aw[1], aw[2]) :
              aw \in {<<Calendar(GoodCalProps,
                                 <<ZonedEvent(None, Some("20250728T120000"),
                                              Some("20250728T130000"),
                                              <<<<"TZID", "Europe/Berlin">>>>)>>,
                                 NoDate, NoDate),
                        <<NoDate, NoDate>>>>,
                      <<Calendar(GoodCalProps,
                                 <<Event(<<>>, 0,
                                         <<Alarm(Some("DISPLAY"), Some("-PT5M"), None, None)>>),
                                   Todo(None, Some("20250728T120000Z"), Some("Buy milk"))>>,
                                 NoDate, NoDate),
                        <<Instant(20250601, 0), Instant(20251201, 0)>>>>,
                      <<Calendar(<<Prop("VERSION", "1.0")>>, <<GoodEvent>>, NoDate, NoDate),
                        <<NoDate, Instant(20250601, 0)>>>>}}

InitConcurrent ==
    /\ \E a \in ConcurrentInputs, b \in ConcurrentInputs :
        /\ icalData = CalledWith(a).icalData
        /\ fromDate = CalledWith(a).fromDate
        /\ toDate = CalledWith(a).toDate
        /\ input = CalledWith(a).input
        /\ other = CalledWith(b)
    /\ calProps = <<>>
    /\ components = <<>>
    /\ fixLog = <<>>
    /\ pc = "called"
    /\ idx = 1
    /\ calls = <<>>
    /\ result = NoResult
    /\ history = <<>>
    /\ call = NoFunction
    /\ proxy = NoRequest

\* the scheduler lets the other call run
Switch ==
    /\ other.pc # "none"
    /\ \E next \in {Resume(other, Locals)} :
        /\ icalData' = next.icalData
        /\ fromDate' = next.fromDate
        /\ toDate' = next.toDate
        /\ input' = next.input
        /\ calProps' = next.calProps
        /\ components' = next.components
        /\ fixLog' = next.fixLog
        /\ pc' = next.pc
        /\ idx' = next.idx
        /\ calls' = next.calls
        /\ result' = next.result
    /\ other' = Locals
    /\ UNCHANGED <<call, history, proxy>>

NextConcurrent ==
    \/ RejectEmpty
    \/ RejectInvalid
    \/ ParseInput
    \/ ApplyDateFilter
    \/ FixCalendarProperties
    \/ FixEventStep
    \/ FixTodoStep
    \/ SerializeAndReturn
    \/ Switch

SpecConcurrent == InitConcurrent /\ [][NextConcurrent]_vars

(***************************************************************************)
(* ProcessICalData as a function of its arguments: what one call can       *)
(* return when nothing else runs, for every value generateUID and          *)
(* time.Now can give it                                                    *)
(***************************************************************************)
\* the entry fixCalendar adds for a component whose log is fixes
ComponentEntry(log, label, i, fixes) ==
    IF Len(fixes) > 0
    THEN AddFix(log, label \o " " \o Itoa(i) \o ": " \o Join(fixes, ", "))
    ELSE log

\* fixCalendar, the loop over calendar.Events() from the k-th event on
RECURSIVE fixEventsFrom(_, _)
fixEventsFrom(st, k) ==
    IF k > Len(Events(st.c)) THEN {st}
    ELSE UNION {fixEventsFrom(FixState(Replace(st.c, e.c),
                                       ComponentEntry(st.log, "Event", k, e.log)),
                              k + 1) :
                  e \in {fixEvent(Events(st.c)[k], r) : r \in ReadsOf(Events(st.c)[k])}}

\* fixCalendar, the loop over calendar.Todos() from the k-th to-do on
RECURSIVE fixTodosFrom(_, _)
fixTodosFrom(st, k) ==
    IF k > Len(Todos(st.c)) THEN {st}
    ELSE UNION {fixTodosFrom(FixState(Replace(st.c, t.c),
                                      ComponentEntry(st.log, "Todo", k, t.log)),
                             k + 1) :
                  t \in {fixTodo(Todos(st.c)[k], hex, now) :
                           hex \in ReadIf(~HasProperty(Todos(st.c)[k], "UID"), RandomHex),
                           now \in ReadIf(~HasProperty(Todos(st.c)[k], "DTSTAMP"), Clock)}}

\* fixCalendar: the calendars and logs it can end with
fixCalendar(props, comps) ==
    {[calProps |-> fixCalendarProperties(FixState(props, <<>>)).c,
      components |-> st.c, log |-> st.log] :
        st \in UNION {fixTodosFrom(ev, 1) :
                        ev \in fixEventsFrom(
                                 FixState(comps,
                                          fixCalendarProperties(FixState(props, <<>>)).log),
                                 1)}}

\* the text and the log after Serialize and applyPostSerializationFixes
Finished(fixed) ==
    [result |-> Result(applyPostSerializationFixes(
                           Serialize(fixed.calProps, fixed.components), fixed.log).text, ""),
     log |-> applyPostSerializationFixes(
                 Serialize(fixed.calProps, fixed.components), fixed.log).log]

\* ProcessICalData: what it can return for data that the parser reads as cal
\* and the log it can end with
ProcessICalData(data, cal) ==
    IF Refusal(data, cal) # ""
    THEN {[result |-> Result("", Refusal(data, cal)), log |-> <<>>]}
    ELSE {Finished(fixed) :
            fixed \in fixCalendar(cal.calProps,
                                  IF cal.from.ok \/ cal.to.ok
                                  THEN filterEventsByDate(cal.components, cal.from, cal.to)
                                  ELSE cal.components)}

(***************************************************************************)
(* Properties                                                              *)
(***************************************************************************)
\* the component as the parser handed it to the pipeline
InputOf(c) == ByPos(input.components, c.pos)

\* the components of one kind in the calendar now
Now(kind) == {components[i] : i \in {j \in 1..Len(components) : components[j].kind = kind}}

ValueIs(c, name, value) == HasProperty(c, name) /\ GetValue(c, name) = value

NonEmpty(c, name) == HasProperty(c, name) /\ GetValue(c, name) # ""


\* some entry of log contains every word of words
Mentions(log, words) ==
    \E i \in 1..Len(log) : \A w \in words : Contains(log[i], w)

Accepts(name, value) ==
    CASE name = "CLASS" -> isValidClassValue(value)
      [] name = "STATUS" -> isValidStatusValue(value)
      [] name = "TRANSP" -> isValidTranspValue(value)
      [] name = "ACTION" -> isValidActionValue(value)

Default(name) ==
    CASE name = "CLASS" -> "PUBLIC"
      [] name = "STATUS" -> "CONFIRMED"
      [] name = "TRANSP" -> "OPAQUE"
      [] name = "ACTION" -> "DISPLAY"

Enumerated == {"CLASS", "STATUS", "TRANSP"}

\* C1: after fixCalendar returns, every event has a DTSTART and a DTEND and
\* the DTEND instant is strictly later than the DTSTART instant, whatever
\* the input values were.
C1_EndAfterStart ==
    pc = "fixed" =>
        \A e \in Now("VEVENT") :
            /\ HasProperty(e, "DTSTART")
            /\ HasProperty(e, "DTEND")
            /\ parseDateTime(GetValue(e, "DTSTART")).ok
            /\ parseDateTime(GetValue(e, "DTEND")).ok
            /\ After(parseDateTime(GetValue(e, "DTEND")), parseDateTime(GetValue(e, "DTSTART")))

\* C2 as claimed: after fixCalendar returns, every event and every to-do has
\* a UID and a DTSTAMP with a non-empty value, also when the input carried
\* the property with an empty value.
C2_NonEmptyAlways ==
    pc = "fixed" =>
        \A c \in Now("VEVENT") \cup Now("VTODO") : NonEmpty(c, "UID") /\ NonEmpty(c, "DTSTAMP")

\* C2 as amended: after fixCalendar returns, every event and every to-do
\* has a UID and a DTSTAMP property; the value is empty exactly when the
\* input carried the property with an empty value, which is left as it is.
C2_PresentAndEmptyOnlyFromInput ==
    pc = "fixed" =>
        \A c \in Now("VEVENT") \cup Now("VTODO") :
            \A name \in {"UID", "DTSTAMP"} :
                /\ HasProperty(c, name)
                /\ GetValue(c, name) = "" <=> ValueIs(InputOf(c), name, "")

C2_Witness ==
    /\ pc = "fixed"
    /\ \E c \in Now("VEVENT") :
         /\ ~HasProperty(InputOf(c), "UID") /\ NonEmpty(c, "UID")
         /\ ~HasProperty(InputOf(c), "DTSTAMP") /\ NonEmpty(c, "DTSTAMP")

\* C3 as claimed: after fixCalendar returns, every event's CLASS, STATUS and
\* TRANSP and every alarm's ACTION holds a value its validator accepts.
C3_AllAccepted ==
    pc = "fixed" =>
        \A e \in Now("VEVENT") :
            /\ \A name \in Enumerated :
                 HasProperty(e, name) /\ Accepts(name, GetValue(e, name))
            /\ \A k \in 1..Len(e.alarms) :
                 HasProperty(e.alarms[k], "ACTION")
                     /\ Accepts("ACTION", GetValue(e.alarms[k], "ACTION"))

\* C3 as amended: after fixCalendar returns, every event's STATUS and TRANSP
\* and every alarm's ACTION holds a value its validator accepts, and every
\* event's CLASS holds such a value or is the empty CLASS of the input,
\* which is left empty.
C3_AcceptedOrEmptyClass ==
    pc = "fixed" =>
        \A e \in Now("VEVENT") :
            /\ \A name \in Enumerated :
                 /\ HasProperty(e, name)
                 /\ \/ Accepts(name, GetValue(e, name))
                    \/ name = "CLASS" /\ GetValue(e, name) = "" /\ ValueIs(InputOf(e), name, "")
            /\ \A k \in 1..Len(e.alarms) :
                 HasProperty(e.alarms[k], "ACTION")
                     /\ Accepts("ACTION", GetValue(e.alarms[k], "ACTION"))

C3_Witness ==
    /\ pc = "fixed"
    /\ \E e \in Now("VEVENT") :
         /\ ValueIs(InputOf(e), "TRANSP", "")
         /\ ValueIs(InputOf(e), "STATUS", "DRAFT")
         /\ ValueIs(e, "TRANSP", "OPAQUE")
         /\ ValueIs(e, "STATUS", "CONFIRMED")
         /\ Len(e.alarms) > 0
         /\ ~HasProperty(InputOf(e).alarms[1], "ACTION")

\* the events fixEvent has been called on at least n times
FixedTimes(n) == {e \in Now("VEVENT") : calls[e.pos].n >= n}

\* C4: applying fixEvent a second time to the event a first fixEvent call
\* produced returns an empty fix log and leaves every property of the event
\* and of its alarms unchanged.
C4_FixEventIdempotent ==
    \A e \in FixedTimes(2) : calls[e.pos].log = <<>> /\ e = calls[e.pos].before

\* what one fixEvent call did to an enumerated property that was present:
\* left as it was and not logged, or replaced by the default
Kept(before, after, log, name, words) ==
    /\ GetValue(after, name) = GetValue(before, name)
    /\ ~Mentions(log, words)

\* C5 as claimed: within one fix call, a CLASS, STATUS, TRANSP or ACTION
\* value its validator accepts is left exactly as it was and no fix is
\* logged for it; a value the validator rejects is replaced by the default.
C5_KeptOrDefault ==
    \A e \in FixedTimes(1) :
        LET before == calls[e.pos].before
            log == calls[e.pos].log
        IN  /\ \A name \in Enumerated :
                 HasProperty(before, name) =>
                    IF Accepts(name, GetValue(before, name))
                    THEN Kept(before, e, log, name, {name})
                    ELSE GetValue(e, name) = Default(name)
            /\ \A k \in 1..Len(before.alarms) :
                 HasProperty(before.alarms[k], "ACTION") =>
                    IF Accepts("ACTION", GetValue(before.alarms[k], "ACTION"))
                    THEN Kept(before.alarms[k], e.alarms[k], log, "ACTION",
                              {"ACTION", "alarm " \o Itoa(k)})
                    ELSE GetValue(e.alarms[k], "ACTION") = Default("ACTION")

\* C5 as amended: within one fix call, an accepted CLASS, STATUS, TRANSP or
\* ACTION value is left exactly as it was and no fix is logged for it; a
\* rejected value is replaced by the default and by no other value, except
\* the empty CLASS, which is left empty and not logged.
C5_KeptOrDefaultButEmptyClass ==
    \A e \in FixedTimes(1) :
        LET before == calls[e.pos].before
            log == calls[e.pos].log
        IN  /\ \A name \in Enumerated :
                 HasProperty(before, name) =>
                    IF \/ Accepts(name, GetValue(before, name))
                       \/ name = "CLASS" /\ GetValue(before, name) = ""
                    THEN Kept(before, e, log, name, {name})
                    ELSE GetValue(e, name) = Default(name)
            /\ \A k \in 1..Len(before.alarms) :
                 HasProperty(before.alarms[k], "ACTION") =>
                    IF Accepts("ACTION", GetValue(before.alarms[k], "ACTION"))
                    THEN Kept(before.alarms[k], e.alarms[k], log, "ACTION",
                              {"ACTION", "alarm " \o Itoa(k)})
                    ELSE GetValue(e.alarms[k], "ACTION") = Default("ACTION")

C5_Witness ==
    \E e \in FixedTimes(1) :
        LET before == calls[e.pos].before
        IN  /\ ValueIs(before, "CLASS", "x-secret")
            /\ ValueIs(before, "STATUS", "cancelled")
            /\ ValueIs(before, "TRANSP", "BUSY")
            /\ Len(before.alarms) > 0
            /\ ValueIs(before.alarms[1], "ACTION", "Audio")
            /\ ValueIs(e, "STATUS", "cancelled")
            /\ ValueIs(e, "TRANSP", "OPAQUE")

\* the alarms of the fixed events that need the property: <<event, k>>
AlarmsWith(actions) ==
    UNION {{<<e, k>> : k \in {j \in 1..Len(e.alarms) : ActionValue(e.alarms[j]) \in actions}} :
              e \in Now("VEVENT")}

\* C6 as claimed: after fix, every alarm whose ACTION is DISPLAY or EMAIL
\* has a DESCRIPTION with a non-empty value and every EMAIL alarm a SUMMARY
\* with a non-empty value, for any input alarm and any parent SUMMARY.
C6_TextNonEmpty ==
    pc = "fixed" =>
        /\ \A ek \in AlarmsWith({"DISPLAY", "EMAIL"}) :
             NonEmpty(ek[1].alarms[ek[2]], "DESCRIPTION")
        /\ \A ek \in AlarmsWith({"EMAIL"}) :
             NonEmpty(ek[1].alarms[ek[2]], "SUMMARY")

\* the property is there, and it is empty only if the input alarm carried
\* it empty or it was added from an empty SUMMARY of the parent event
PresentEmptyOnlyFromInput(e, k, name) ==
    /\ HasProperty(e.alarms[k], name)
    /\ GetValue(e.alarms[k], name) = "" =>
         \/ ValueIs(InputOf(e).alarms[k], name, "")
         \/ ~HasProperty(InputOf(e).alarms[k], name) /\ ValueIs(InputOf(e), "SUMMARY", "")

\* C6 as amended: after fix, every alarm whose ACTION is DISPLAY or EMAIL
\* has a DESCRIPTION property and every EMAIL alarm a SUMMARY property; its
\* value is non-empty unless the input alarm carried the property with an
\* empty value or the property was copied from an empty parent SUMMARY.
C6_TextPresent ==
    pc = "fixed" =>
        /\ \A ek \in AlarmsWith({"DISPLAY", "EMAIL"}) :
             PresentEmptyOnlyFromInput(ek[1], ek[2], "DESCRIPTION")
        /\ \A ek \in AlarmsWith({"EMAIL"}) :
             PresentEmptyOnlyFromInput(ek[1], ek[2], "SUMMARY")

C6_Witness ==
    /\ pc = "fixed"
    /\ \E ek \in AlarmsWith({"EMAIL"}) :
         /\ ~HasProperty(InputOf(ek[1]).alarms[ek[2]], "DESCRIPTION")
         /\ ~HasProperty(InputOf(ek[1]).alarms[ek[2]], "SUMMARY")
         /\ ValueIs(ek[1].alarms[ek[2]], "DESCRIPTION", "Standup")
         /\ ValueIs(ek[1].alarms[ek[2]], "SUMMARY", "Standup")

\* fixCalendarProperties has returned
PropertiesFixed == pc \notin {"parsed", "filtered"}

\* the entries fixCalendarProperties put in the log of fixCalendar
CalendarFixes ==
    SelectSeq(fixLog, LAMBDA f : ~HasPrefix(f, "Event ") /\ ~HasPrefix(f, "Todo "))

CalHas(props, name) == \E i \in 1..Len(props) : props[i].name = name

\* the value of the first calendar property called name
CalValue(props, name) ==
    props[CHOOSE i \in 1..Len(props) :
            props[i].name = name /\ \A j \in 1..(i - 1) : props[j].name # name].value

Compliant(props) ==
    /\ CalHas(props, "VERSION") /\ CalValue(props, "VERSION") = "2.0"
    /\ CalHas(props, "CALSCALE") /\ CalValue(props, "CALSCALE") = "GREGORIAN"
    /\ CalHas(props, "PRODID") /\ CalValue(props, "PRODID") # ""

\* C7: after fixCalendarProperties the VERSION value is exactly "2.0", the
\* CALSCALE value exactly "GREGORIAN" and a PRODID with a non-empty value
\* is present, for every input; and when all three held before the call the
\* fix log gains no entry.
C7_CalendarCompliant ==
    PropertiesFixed =>
        /\ Compliant(calProps)
        /\ Compliant(input.calProps) => CalendarFixes = <<>>

C7_Witness ==
    /\ PropertiesFixed
    /\ CalHas(input.calProps, "VERSION") /\ CalValue(input.calProps, "VERSION") = "1.0"
    /\ CalHas(input.calProps, "CALSCALE") /\ CalValue(input.calProps, "CALSCALE") = "gregorian"
    /\ ~CalHas(input.calProps, "PRODID")
    /\ Len(CalendarFixes) = 3

OutsideWindow(event) ==
    /\ HasProperty(event, "DTSTART")
    /\ parseEventDate(GetValue(event, "DTSTART")).ok
    /\ \/ fromDate.ok /\ Before(parseEventDate(GetValue(event, "DTSTART")), fromDate)
       \/ toDate.ok /\ After(parseEventDate(GetValue(event, "DTSTART")), AddDay(toDate))

\* C9: filterEventsByDate removes an event if and only if its DTSTART is
\* present and parses and lies before from or after to + 1 day; every other
\* event and every to-do is still in the calendar afterwards.
C9_RemovedIffOutside ==
    pc = "filtered" =>
        \A i \in 1..Len(input.components) :
            LET c == input.components[i]
            IN  ~Holds(components, c.pos) <=> (c.kind = "VEVENT" /\ OutsideWindow(c))

\* the calendar holds the three events of the date filtering test and the
\* filter has run with to = 2025-12-01 and no from
TestCalendarFilteredTo ==
    /\ pc = "filtered"
    /\ Len(input.components) = 3
    /\ ValueIs(input.components[1], "DTSTART", "20250101T120000Z")
    /\ ValueIs(input.components[2], "DTSTART", "20250615T140000Z")
    /\ ValueIs(input.components[3], "DTSTART", "20251225T180000Z")
    /\ ~fromDate.ok
    /\ toDate = Instant(20251201, 0)

\* C10 as claimed: of the three events, filtering with only to = 2025-12-01
\* keeps none.
C10_KeepsNone ==
    TestCalendarFilteredTo => Len(Events(components)) = 0

\* C10 as amended: of the three events, filtering with only to = 2025-12-01
\* removes exactly one and keeps two; when the three UIDs differ the events
\* kept are those of January and June.
C10_KeepsTwo ==
    TestCalendarFilteredTo =>
        /\ Len(Events(components)) = 2
        /\ Cardinality({Id(input.components[i]) : i \in 1..3}) = 3 =>
             {components[i].pos : i \in 1..Len(components)} = {1, 2}

C10_Witness ==
    /\ TestCalendarFilteredTo
    /\ ValueIs(input.components[1], "UID", "event1@example.com")
    /\ ValueIs(input.components[2], "UID", "event2@example.com")
    /\ ValueIs(input.components[3], "UID", "event3@example.com")
    /\ Len(components) = 2

\* every event of the parsed calendar has a UID and no two share one, so
\* that RemoveEvent(event.Id()) removes the event it was called for
DistinctIds ==
    \A i, j \in 1..Len(input.components) :
        LET a == input.components[i]
            b == input.components[j]
        IN  (a.kind = "VEVENT" /\ b.kind = "VEVENT") =>
                /\ HasProperty(a, "UID")
                /\ (i # j => Id(a) # Id(b))

\* C11: with to given (and no from), an event with a parseable DTSTART
\* survives the filter if and only if its DTSTART falls on or before the to
\* day; an event starting at 00:00:00 of the day after to is removed.
C11_UpperBoundIsToDay ==
    (pc = "filtered" /\ toDate.ok /\ ~fromDate.ok /\ DistinctIds) =>
        \A i \in 1..Len(input.components) :
            LET c == input.components[i]
            IN  (c.kind = "VEVENT" /\ HasProperty(c, "DTSTART")
                    /\ parseEventDate(GetValue(c, "DTSTART")).ok) =>
                  (Holds(components, c.pos)
                      <=> parseEventDate(GetValue(c, "DTSTART")).date <= toDate.date)

ReturnedTzid == call.fn = "fixTzidOnUtcTimes" /\ call.step = "returned"

\* the text after the final colon of a line
ValuePortion(line) ==
    SubSeq(line, Nth(OccurrencesOf(line, ":"), Cardinality(OccurrencesOf(line, ":"))) + 1,
           Len(line))

\* the line is one that the pass has to rewrite
Rewritable(line) ==
    /\ HasPrefix(line, "DTSTART;") \/ HasPrefix(line, "DTEND;")
    /\ Contains(line, "TZID=")
    /\ Contains(line, ":")
    /\ HasSuffix(ValuePortion(line), "Z")

\* C12: fixTzidOnUtcTimes rewrites a line exactly when it begins with
\* "DTSTART;" or "DTEND;", contains a TZID parameter and its value portion,
\* the text after the final colon, ends with "Z"; the rewritten line is the
\* property name, a colon and that value portion; every other line is
\* unchanged, and the number and order of lines and the CRLF separators are
\* preserved.
C12_RewritesToNameAndValue ==
    ReturnedTzid =>
        LET before == Split(call.arg, "\r\n")
            after == Split(call.ret, "\r\n")
        IN  /\ Len(after) = Len(before)
            /\ \A i \in 1..Len(before) :
                 after[i] = IF Rewritable(before[i])
                            THEN (IF HasPrefix(before[i], "DTEND;") THEN "DTEND" ELSE "DTSTART")
                                    \o ":" \o ValuePortion(before[i])
                            ELSE before[i]

\* the content lines of a text: a line that starts with a space continues
\* the line before it
RECURSIVE UnfoldInto(_, _)
UnfoldInto(done, lines) ==
    IF lines = <<>> THEN done
    ELSE IF HasPrefix(Head(lines), " ") /\ done # <<>>
         THEN UnfoldInto([done EXCEPT ![Len(done)] =
                                @ \o SubSeq(Head(lines), 2, Len(Head(lines)))],
                         Tail(lines))
         ELSE UnfoldInto(Append(done, Head(lines)), Tail(lines))

ContentLines(text) == UnfoldInto(<<>>, Split(text, "\r\n"))

\* a DTSTART or DTEND with a TZID parameter and a value in UTC
ZonedUtc(line) ==
    /\ HasPrefix(line, "DTSTART;") \/ HasPrefix(line, "DTEND;")
    /\ Contains(line, ";TZID=")
    /\ HasSuffix(line, "Z")

ReturnedDocument == pc = "returned" /\ result.err = ""

\* C13: in the text ProcessICalData returns for a document that parses, no
\* DTSTART or DTEND whose value ends with "Z" carries a TZID parameter.
C13_NoTzidOnUtcValue ==
    ReturnedDocument =>
        \A i \in 1..Len(ContentLines(result.text)) : ~ZonedUtc(ContentLines(result.text)[i])

\* C14: ProcessICalData called with no bytes returns the error "empty iCal
\* data" and the empty text, and does so at once: the parser, the filter,
\* the fix engine and the serializer have not run, so there is no calendar,
\* no fix and no component.
C14_EmptyRefusedAtOnce ==
    /\ [](pc = "returned" /\ icalData = "" =>
            /\ result = Result("", "empty iCal data")
            /\ calProps = <<>> /\ components = <<>> /\ calls = <<>> /\ fixLog = <<>>)
    /\ [][pc = "called" /\ icalData = "" => pc' = "returned"]_vars

C14_Witness == pc = "returned" /\ icalData = "" /\ result.err # "" /\ result.text = ""

\* the text is a calendar from its first line to its last
IsDocument(text) ==
    /\ HasPrefix(text, "BEGIN:VCALENDAR\r\n")
    /\ HasSuffix(text, "END:VCALENDAR\r\n")

\* the call can take its next step: the condition of RejectEmpty, of
\* RejectInvalid, of ParseInput, of the filter, of the calendar properties,
\* of the two loops and of the return holds
CanStep ==
    \/ pc = "called" /\ Len(icalData) = 0
    \/ pc = "called" /\ Len(icalData) # 0 /\ Refusal(icalData, input) # ""
    \/ pc = "called" /\ Refusal(icalData, input) = ""
    \/ pc \in {"parsed", "filtered", "fixed"}
    \/ pc = "events" /\ idx \in 1..Len(Events(components))
    \/ pc = "todos" /\ idx \in 1..Len(Todos(components))

\* how far the calls have come: the calls that returned, the stage of
\* this call and the turn of its loop
Stage ==
    [s \in {"called", "parsed", "filtered", "events", "todos", "fixed", "returned"} |->
        CASE s = "called" -> 0 [] s = "parsed" -> 1 [] s = "filtered" -> 2
          [] s = "events" -> 3 [] s = "todos" -> 4 [] s = "fixed" -> 5 [] s = "returned" -> 6]

Progress ==
    Len(history) * 1000 + Stage[pc] * 100 + (IF pc \in {"events", "todos"} THEN idx ELSE 0)

\* C15: ProcessICalData returns an error if and only if the input is empty
\* or the parser rejects it; for every document that parses, whatever its
\* property values, the call runs on through filter, fix, serialize and TZID
\* strip until it returns a document and no error: a call that has not
\* returned can take a step, and every step brings it closer to its return.
C15_ErrorIffRefused ==
    /\ [](pc = "returned" =>
            /\ result.err # "" <=> (icalData = "" \/ ~input.parses)
            /\ result.err = "" => IsDocument(result.text))
    /\ [](pc # "returned" => CanStep)
    /\ [][Progress' > Progress]_vars

\* an event whose DTSTART does not parse has gone through the pipeline
C15_Witness ==
    /\ pc = "returned"
    /\ result.err = ""
    /\ IsDocument(result.text)
    /\ \E i \in 1..Len(input.components) :
         /\ input.components[i].kind = "VEVENT"
         /\ ValueIs(input.components[i], "DTSTART", "next week")

Normalized == call.fn = "normalizeDateTime" /\ call.step # "called"

\* raw with every space, hyphen and colon removed: the characters at the
\* other positions, in their order
RECURSIVE CharsAt(_, _, _)
CharsAt(s, positions, k) ==
    IF k > Cardinality(positions) THEN ""
    ELSE Char(s, Nth(positions, k)) \o CharsAt(s, positions, k + 1)

Compact(raw) ==
    CharsAt(raw, {i \in 1..Len(raw) : Char(raw, i) \notin {" ", "-", ":"}}, 1)

NormalizeReference(raw) ==
    CASE Len(Compact(raw)) = 15 /\ ~HasSuffix(Compact(raw), "Z") -> Compact(raw) \o "Z"
      [] Len(Compact(raw)) = 8 -> Compact(raw) \o "T000000Z"
      [] OTHER -> Compact(raw)

\* C16: normalizeDateTime(raw) equals the reference: with s the raw text
\* without its spaces, hyphens and colons, s + "Z" when s has 15 characters
\* and does not end in "Z", s + "T000000Z" when s has 8 characters, and s
\* otherwise.
C16_EqualsReference ==
    Normalized => call.ret = NormalizeReference(call.arg)

\* a dashed local date-time was stripped and got its "Z"
C16_Witness ==
    /\ Normalized
    /\ call.arg = "2025-07-28T12:00:00"
    /\ call.ret = "20250728T120000Z"

\* C17: normalizeDateTime is idempotent: normalizing what it returned
\* returns the same text.
C17_Idempotent ==
    (call.fn = "normalizeDateTime" /\ call.step = "normalized again") =>
        call.after = call.ret

\* a value that the first call changed went through the second
C17_Witness ==
    /\ call.fn = "normalizeDateTime"
    /\ call.step = "normalized again"
    /\ call.arg = "2025-07-28"
    /\ call.ret = "20250728T000000Z"
    /\ call.after = call.ret

ParsedAfter == call.fn = "normalizeDateTime" /\ call.step = "parsed"

\* C18 as stated: parseDateTime(normalizeDateTime(x)) succeeds for every
\* input string x.
C18_ParsesEveryText ==
    ParsedAfter => call.after.ok

\* the text is a date or a date-time in one of the three compact layouts
IsCompactDateTime(s) ==
    \E layout \in {LayoutUTC, LayoutLocal, LayoutDate} : TimeParse(layout, s).ok

\* C18: parseDateTime(normalizeDateTime(x)) succeeds for every x that, with
\* its spaces, hyphens and colons removed, is a date (YYYYMMDD) or a
\* date-time (YYYYMMDDTHHMMSS, with or without "Z") whose fields are in
\* range.
C18_ParsesDateTimes ==
    (ParsedAfter /\ IsCompactDateTime(Compact(call.arg))) => call.after.ok

\* a dashed date went through both functions
C18_Witness ==
    /\ ParsedAfter
    /\ call.arg = "2025-07-28"
    /\ call.after = Instant(20250728, 0)

\* the standard values of the property a validator is for
StandardValues ==
    [fn \in {"isValidClassValue", "isValidStatusValue",
             "isValidTranspValue", "isValidActionValue"} |->
        CASE fn = "isValidClassValue" -> {"PUBLIC", "PRIVATE", "CONFIDENTIAL"}
          [] fn = "isValidStatusValue" -> {"TENTATIVE", "CONFIRMED", "CANCELLED"}
          [] fn = "isValidTranspValue" -> {"OPAQUE", "TRANSPARENT"}
          [] fn = "isValidActionValue" -> {"AUDIO", "DISPLAY", "EMAIL"}]

Validated == call.fn \in DOMAIN StandardValues /\ call.step = "returned"

ReturnedAgain == pc = "returned" /\ history # <<>>

\* C20 as stated: two invocations of ProcessICalData with the same bytes
\* and the same bounds return the same text, whatever the clock and the
\* random source are at each.
C20_SameTextAlways ==
    ReturnedAgain => \A k \in 1..Len(history) : result.text = history[k].text

\* the fix engine generates nothing for the component from the clock or
\* from the random source
NothingToGenerate(c) ==
    IF c.kind = "VEVENT"
    THEN /\ \A name \in {"UID", "DTSTAMP", "DTSTART", "CREATED", "LAST-MODIFIED"} :
                HasProperty(c, name)
         /\ \/ HasProperty(c, "DTEND")
            \/ parseDateTime(normalizeDateTime(GetValue(c, "DTSTART"))).ok
    ELSE HasProperty(c, "UID") /\ HasProperty(c, "DTSTAMP")

\* C20: two invocations of ProcessICalData with the same bytes and the same
\* bounds return the same text and the same error when the input is refused,
\* or when every event of the document has UID, DTSTAMP, DTSTART, CREATED and
\* LAST-MODIFIED and either a DTEND or a DTSTART that parses once normalized,
\* and every to-do has UID and DTSTAMP.
C20_SameTextWithoutGenerated ==
    (ReturnedAgain /\ \A i \in 1..Len(input.components) : NothingToGenerate(input.components[i]))
        => \A k \in 1..Len(history) : result = history[k]

\* an event without DTEND came out the same from the second call
C20_Witness ==
    /\ ReturnedAgain
    /\ result.err = ""
    /\ result = history[1]
    /\ Len(input.components) = 1
    /\ NothingToGenerate(input.components[1])
    /\ ~HasProperty(input.components[1], "DTEND")
    /\ Contains(result.text, "DTEND:20250728T130000Z")

\* the calendar properties fixCalendarProperties gave another value than
\* the input had, an absent property counting as ""
CalendarCorrections ==
    Cardinality({name \in {"VERSION", "PRODID", "CALSCALE"} :
                    getCalendarProperty(calProps, name)
                        # getCalendarProperty(input.calProps, name)})

\* the corrections fixEvent and fixTodo reported for components 1..k
RECURSIVE ComponentCorrections(_)
ComponentCorrections(k) ==
    IF k = 0 THEN 0 ELSE Len(calls[k].log) + ComponentCorrections(k - 1)

\* the events and to-dos that got a correction
CorrectedComponents == {k \in 1..Len(calls) : calls[k].log # <<>>}

\* fixLog only grows, at its end
AppendOnly == [][Len(fixLog') >= Len(fixLog) /\ SubSeq(fixLog', 1, Len(fixLog)) = fixLog]_vars

\* C21 as claimed: the fix log fixCalendar returns holds one entry per
\* correction: its length is the number of corrections made to the calendar,
\* its events (alarms included) and its to-dos, and an entry once appended
\* is never removed or changed.
C21_OneEntryPerCorrection ==
    /\ [](pc = "fixed" =>
            Len(fixLog) = CalendarCorrections + ComponentCorrections(Len(calls)))
    /\ AppendOnly

\* C21 as amended: the fix log fixCalendar returns holds one entry per
\* correction of the calendar properties and one entry per event or to-do
\* that got a correction, which lists the corrections of that component
\* joined by ", "; an entry once appended is never removed or changed.
C21_OneEntryPerCorrectedComponent ==
    /\ [](pc = "fixed" =>
            /\ Len(fixLog) = CalendarCorrections + Cardinality(CorrectedComponents)
            /\ Len(CalendarFixes) = CalendarCorrections
            /\ \A k \in CorrectedComponents :
                 \E i \in 1..Len(fixLog) :
                     /\ HasPrefix(fixLog[i], "Event ") \/ HasPrefix(fixLog[i], "Todo ")
                     /\ HasSuffix(fixLog[i], ": " \o Join(calls[k].log, ", ")))
    /\ AppendOnly

C21_Witness ==
    /\ pc = "fixed"
    /\ Len(fixLog) = 1
    /\ \E k \in 1..Len(calls) : Len(calls[k].log) >= 2

\* the checks of handleProxy in the order claimed: whether the request
\* fails the check, the status and the message of the answer
Checks(r) ==
    <<[fails |-> r.method # "GET", status |-> 405, message |-> "Invalid request method"],
      [fails |-> r.url = "", status |-> 400, message |-> "Missing 'url' parameter"],
      [fails |-> InvalidURL(r.url), status |-> 400, message |-> "Invalid 'url' parameter"],
      [fails |-> r.from # "" /\ InvalidDate(r.from), status |-> 400,
       message |-> "Invalid 'from' date format. Use YYYY-MM-DD"],
      [fails |-> r.to # "" /\ InvalidDate(r.to), status |-> 400,
       message |-> "Invalid 'to' date format. Use YYYY-MM-DD"]>>

FailedChecks(r) == {i \in 1..Len(Checks(r)) : Checks(r)[i].fails}

\* the first check the request fails
FirstFailure(r) == Checks(r)[CHOOSE i \in FailedChecks(r) : \A j \in FailedChecks(r) : i <= j]

\* C22: handleProxy answers a request with the status and the message of
\* the first check it fails, in the order method (405), url missing (400),
\* url not absolute (400), from (400), to (400); a request that fails a
\* check never reaches the upstream, the fetch is issued once all five
\* pass, and a fetch error or a status other than 200 gives 500.
C22_ChecksInOrderBeforeFetch ==
    /\ [](proxy.pc = "responded" /\ FailedChecks(proxy.request) # {} =>
            /\ proxy.status = FirstFailure(proxy.request).status
            /\ proxy.body = FirstFailure(proxy.request).message \o "\n"
            /\ proxy.fetches = 0)
    /\ [](proxy.pc = "responded" /\ FailedChecks(proxy.request) = {} =>
            /\ proxy.fetches = 1
            /\ Get(proxy.request.url, proxy.upstream).err
                   \/ Get(proxy.request.url, proxy.upstream).status # 200
                 => proxy.status = 500)
    /\ [][proxy.pc # "none" /\ proxy.fetches' # proxy.fetches =>
            FailedChecks(proxy.request) = {} /\ proxy.pc = "received"]_vars

C22_Witness ==
    /\ proxy.pc = "responded"
    /\ proxy.request.method = "POST"
    /\ proxy.request.url = ""
    /\ proxy.request.from = "invalid-date"
    /\ proxy.status = 405
    /\ proxy.fetches = 0

\* a call with the locals l has returned what it can return when run alone
ReturnsAsAlone(l) ==
    l.pc = "returned" =>
        [result |-> l.result, log |-> l.fixLog] \in ProcessICalData(l.icalData, l.input)

\* C23: under every interleaving of two ProcessICalData calls, each call
\* returns a document and a fix log that it can return when it runs alone
\* on its input.
C23_EachReturnsAsAlone ==
    other.pc # "none" => ReturnsAsAlone(Locals) /\ ReturnsAsAlone(other)

\* both calls have returned, each its own document and its own log
C23_Witness ==
    /\ other.pc = "returned" /\ pc = "returned"
    /\ result.err = "" /\ other.result.err = ""
    /\ fixLog # <<>> /\ other.fixLog # <<>>
    /\ fixLog # other.fixLog
    /\ result.text # other.result.text

\* the to-dos fixTodo has been called on
FixedTodos == {t \in Now("VTODO") : calls[t.pos].n >= 1}

\* the three properties of fixTodo with the fix it logs for each
TodoRules ==
    <<[name |-> "UID", fix |-> "Generated missing UID for TODO",
       values |-> {generateUID(hex) : hex \in RandomHex}],
      [name |-> "DTSTAMP", fix |-> "Added missing DTSTAMP to TODO",
       values |-> {FormatUTC(now) : now \in Clock}],
      [name |-> "SUMMARY", fix |-> "Added default SUMMARY to TODO",
       values |-> {"Task"}]>>

\* the rules whose property the to-do lacks, in order
Absent(todo) == SelectSeq(TodoRules, LAMBDA rule : ~HasProperty(todo, rule.name))

\* C24: fixTodo adds a generated UID, a DTSTAMP of the current UTC time and
\* SUMMARY "Task" exactly for those of the three that are absent, logs one
\* fix per addition, and leaves every other property of the to-do
\* (date-times, enumerated properties, nested alarms) and every UID,
\* DTSTAMP or SUMMARY that was present unchanged.
C24_AddsAbsentOnly ==
    \A t \in FixedTodos :
        LET before == calls[t.pos].before
            added == Absent(before)
        IN  /\ SubSeq(t.props, 1, Len(before.props)) = before.props
            /\ Len(t.props) = Len(before.props) + Len(added)
            /\ \A i \in 1..Len(added) :
                 /\ t.props[Len(before.props) + i].name = added[i].name
                 /\ t.props[Len(before.props) + i].value \in added[i].values
                 /\ t.props[Len(before.props) + i].params = <<>>
            /\ calls[t.pos].log = [i \in 1..Len(added) |-> added[i].fix]
            /\ t.alarms = before.alarms

\* a to-do without UID and DTSTAMP, with an empty SUMMARY, date-times,
\* enumerated properties and an alarm, after fixTodo
C24_Witness ==
    \E t \in FixedTodos :
        /\ ~HasProperty(calls[t.pos].before, "UID") /\ NonEmpty(t, "UID")
        /\ ~HasProperty(calls[t.pos].before, "DTSTAMP") /\ NonEmpty(t, "DTSTAMP")
        /\ ValueIs(t, "SUMMARY", "")
        /\ ValueIs(t, "DTSTART", "2025-07-28")
        /\ ValueIs(t, "STATUS", "DRAFT")
        /\ Len(t.alarms) = 1 /\ t.alarms[1].props = <<>>
        /\ Len(calls[t.pos].log) = 2

\* how often fix is in log
Times(log, fix) == Cardinality({i \in 1..Len(log) : log[i] = fix})

\* the events whose last fixEvent call found them without DTEND
FixedWithoutEnd ==
    {e \in FixedTimes(1) : ~HasProperty(calls[e.pos].before, "DTEND")}

\* C25: for an event without DTEND, fixEventDateTimes sets DTEND from the
\* normalized DTSTART: one hour after its instant, in the form
\* 20060102T150405Z, when it parses, and one hour after the current instant
\* only when it does not; 'Added missing DTEND' is logged once either way.
C25_EndFromNormalizedStart ==
    \A e \in FixedWithoutEnd :
        LET before == calls[e.pos].before
            start == IF HasProperty(before, "DTSTART")
                     THEN normalizeDateTime(GetValue(before, "DTSTART"))
                     ELSE GetValue(e, "DTSTART")
        IN  /\ ValueIs(e, "DTSTART", start)
            /\ HasProperty(e, "DTEND")
            /\ IF parseDateTime(start).ok
               THEN GetValue(e, "DTEND") = FormatUTC(AddHour(parseDateTime(start)))
               ELSE GetValue(e, "DTEND") \in {FormatUTC(AddHour(now)) : now \in Clock}
            /\ Times(calls[e.pos].log, "Added missing DTEND") = 1

\* an event without DTEND whose DTSTART parses only once it is normalized
C25_Witness ==
    \E e \in FixedWithoutEnd :
        /\ ValueIs(calls[e.pos].before, "DTSTART", "2025-07-28T15:00:00Z")
        /\ ~parseDateTime("2025-07-28T15:00:00Z").ok
        /\ ValueIs(e, "DTSTART", "20250728T150000Z")
        /\ ValueIs(e, "DTEND", "20250728T160000Z")

\* C26: when ProcessICalData is called with from and/or to, every event of
\* the returned document whose DTSTART parses lies inside the window, not
\* before from and not after to + 1 day, also when the DTSTART of the input
\* was absent or parses only once it is normalized.
C26_ReturnedEventsInWindow ==
    (ReturnedDocument /\ (fromDate.ok \/ toDate.ok)) =>
        \A e \in Now("VEVENT") : ~OutsideWindow(e)

\* the identities of the events filterEventsByDate marked, and of the
\* components that are gone after it
Marked == {input.components[i].pos : i \in {j \in 1..Len(input.components) :
              input.components[j].kind = "VEVENT" /\ OutsideWindow(input.components[j])}}

Removed == {input.components[i].pos : i \in 1..Len(input.components)}
              \ {components[i].pos : i \in 1..Len(components)}

\* C27: filterEventsByDate never removes an event it did not mark: for every
\* calendar, also when events share a UID or have none, the set of events
\* removed is the set of events whose parseable DTSTART is outside the
\* window.
C27_RemovedAreTheMarked == pc = "filtered" => Removed = Marked

\* the alarm texts fixEvent can add
AlarmTexts == {"DESCRIPTION", "SUMMARY"}

\* the values of all properties of the alarms of an event
AlarmValues(e) ==
    UNION {{e.alarms[k].props[i].value : i \in 1..Len(e.alarms[k].props)} :
              k \in 1..Len(e.alarms)}

\* C28: fixEvent fixes the required properties before the alarms, so the
\* event has a SUMMARY when its alarms are fixed: a DESCRIPTION or SUMMARY
\* that fixEvent adds to an alarm equals the SUMMARY value of the event, and
\* no fixEvent call writes the literal "Event Reminder".
C28_AlarmTextIsEventSummary ==
    \A e \in FixedTimes(1) :
        /\ HasProperty(e, "SUMMARY")
        /\ \A k \in 1..Len(e.alarms), name \in AlarmTexts :
             (~HasProperty(calls[e.pos].before.alarms[k], name)
                 /\ HasProperty(e.alarms[k], name))
               => GetValue(e.alarms[k], name) = GetValue(e, "SUMMARY")
        /\ "Event Reminder" \notin AlarmValues(e)

\* an event without SUMMARY whose alarm got its DESCRIPTION from the SUMMARY
\* the required-property pass had added
C28_Witness ==
    \E e \in FixedTimes(1) :
        /\ ~HasProperty(calls[e.pos].before, "SUMMARY")
        /\ ValueIs(e, "SUMMARY", "Event")
        /\ Len(e.alarms) > 0
        /\ ~HasProperty(calls[e.pos].before.alarms[1], "DESCRIPTION")
        /\ ValueIs(e.alarms[1], "DESCRIPTION", "Event")

\* a property given as a local date-time of 15 characters with a TZID
LocalWithTzid(c, name) ==
    /\ HasProperty(c, name)
    /\ TimeParse(LayoutLocal, GetValue(c, name)).ok
    /\ \E i \in 1..Len(c.props[IndexOf(c.props, name)].params) :
         c.props[IndexOf(c.props, name)].params[i][1] = "TZID"

\* the content lines of text that are the property name
LinesOf(text, name) ==
    SelectSeq(ContentLines(text),
              LAMBDA line : HasPrefix(line, name \o ":") \/ HasPrefix(line, name \o ";"))

\* C29: through the whole pipeline a DTSTART or DTEND given as a local
\* date-time of 15 characters with a TZID never keeps the TZID: the
\* returned line is the name, a colon, the same digits and "Z".
C29_LocalWithTzidBecomesUtc ==
    ReturnedDocument =>
        \A i \in 1..Len(input.components), name \in {"DTSTART", "DTEND"} :
            (Holds(components, i) /\ LocalWithTzid(input.components[i], name)) =>
                LinesOf(result.text, name)
                    = <<name \o ":" \o GetValue(input.components[i], name) \o "Z">>

\* the DTEND value the ordering step of fixEventDateTimes found in the call
\* that left the event e: the normalized value, or the one just added
EndAtOrdering(e) ==
    IF HasProperty(calls[e.pos].before, "DTEND")
    THEN normalizeDateTime(GetValue(calls[e.pos].before, "DTEND"))
    ELSE GetValue(e, "DTEND")

\* C30: after fixEventDateTimes, whenever DTSTART and DTEND both parse the
\* DTEND instant is strictly after the DTSTART instant; and when one of the
\* two does not parse, the ordering step changes neither value and logs no
\* 'Fixed DTEND' entry.
C30_OrderedWhenBothParse ==
    \A e \in FixedTimes(1) :
        /\ (parseDateTime(GetValue(e, "DTSTART")).ok /\ parseDateTime(GetValue(e, "DTEND")).ok)
             => After(parseDateTime(GetValue(e, "DTEND")),
                      parseDateTime(GetValue(e, "DTSTART")))
        /\ (~parseDateTime(GetValue(e, "DTSTART")).ok \/ ~parseDateTime(EndAtOrdering(e)).ok)
             => /\ GetValue(e, "DTEND") \in {EndAtOrdering(e), EndValue(calls[e.pos].before)}
                /\ Times(calls[e.pos].log, "Fixed DTEND to be after DTSTART") = 0

====
